---- MODULE Spec2Model ----
(***************************************************************************)
(* Chunk streaming of the voxel engine (WorldCanvas, src/src/app/layout.tsx *)
(* lines 152-379): the resident map `loaded`, the set `inflight`, the       *)
(* `disposed` flag, the suspended loadChunkAt invocations, the world group  *)
(* and the chunk the camera was in at the last frame.                       *)
(*                                                                          *)
(* Every operator is written for an arbitrary VIEW_RADIUS.  The source sets *)
(* VIEW_RADIUS = 6 (169 independent loads per centre), which no exhaustive  *)
(* search covers; the checked instance uses the radius below, so that the   *)
(* desired square, the retention margin VIEW_RADIUS+1 and the eviction      *)
(* distance VIEW_RADIUS+2 all occur inside the region the observer walks.   *)
(***************************************************************************)
EXTENDS Integers, Sequences, FiniteSets, Bags, TLC

VARIABLES loaded, inflight, disposed, tasks, worldGroup, geometryDisposed,
          lastChunk

\* Chunk construction (generateChunkServer of the route, the fallback of
\* loadChunkAt): the call in progress, what every finished call returned and
\* how many calls were made.
VARIABLES job, returned, calls

\* The route handler GET: the request being handled, the last response and
\* the memo of getChunkCached.
VARIABLES request, response, chunkCache

\* Layer painting: the grid the paint passes work on, with the history of
\* the passes.
VARIABLES painting

streamVars == <<loaded, inflight, disposed, tasks, worldGroup, geometryDisposed,
                lastChunk>>

genVars == <<job, returned, calls>>

routeVars == <<request, response, chunkCache>>

paintVars == <<painting>>

vars == <<loaded, inflight, disposed, tasks, worldGroup, geometryDisposed,
          lastChunk, job, returned, calls, request, response, chunkCache,
          painting>>

(***************************************************************************)
(* Program constants.                                                       *)
(***************************************************************************)
CHUNK == 16

VIEW_RADIUS == 0

\* CAMERA_INITIAL_POSITION = (0, 20, 80): its x and z components.
CAMERA_INITIAL_X == 0

CAMERA_INITIAL_Z == 80

(***************************************************************************)
(* Bound of the checked instance: the observer walks an L-shaped region of  *)
(* chunk coordinates, MaxWest chunks west of the initial chunk and, north   *)
(* of it, as far as the eviction distance VIEW_RADIUS + 2.                  *)
(***************************************************************************)
MaxWest == 1

NaN == "NaN"

\* lastChunkX = NaN, lastChunkZ = NaN: no chunk visited yet.
NoChunk == <<>>

\* Math.round(v / CHUNK) for an integer v (ties round towards +Infinity).
RoundDiv(v, d) == (2 * v + d) \div (2 * d)

InitialChunk == <<RoundDiv(CAMERA_INITIAL_X, CHUNK), RoundDiv(CAMERA_INITIAL_Z, CHUNK)>>

Region ==
    {<<InitialChunk[1] - w, InitialChunk[2]>> : w \in 0..MaxWest}
        \cup {<<InitialChunk[1], InitialChunk[2] + n>> : n \in 0..(VIEW_RADIUS + 2)}

Abs(n) == IF n < 0 THEN -n ELSE n

(***************************************************************************)
(* keyOf: the template string `${cx},${cz}`, as a sequence of characters,   *)
(* and the decoding of the eviction pass: key.split(',').map(parseInt).     *)
(***************************************************************************)
DigitChars == <<"0", "1", "2", "3", "4", "5", "6", "7", "8", "9">>

RECURSIVE NatToString(_)
NatToString(n) ==
    IF n < 10 THEN <<DigitChars[n + 1]>>
    ELSE NatToString(n \div 10) \o <<DigitChars[(n % 10) + 1]>>

\* String(n) of an integer, as template substitution formats it.
NumberToString(n) == IF n < 0 THEN <<"-">> \o NatToString(-n) ELSE NatToString(n)

keyOf(cx, cz) == NumberToString(cx) \o <<",">> \o NumberToString(cz)

IsDigit(ch) == \E i \in 1..10 : DigitChars[i] = ch

DigitValue(ch) == (CHOOSE i \in 1..10 : DigitChars[i] = ch) - 1

\* String.prototype.split with a one-character separator.
RECURSIVE split(_, _)
split(s, sep) ==
    IF \A i \in 1..Len(s) : s[i] # sep THEN <<s>>
    ELSE LET p == CHOOSE i \in 1..Len(s) :
                      s[i] = sep /\ \A j \in 1..(i - 1) : s[j] # sep
         IN  <<SubSeq(s, 1, p - 1)>> \o split(SubSeq(s, p + 1, Len(s)), sep)

RECURSIVE ParseDigits(_, _, _)
\* The longest prefix of digits of s from position i: <<number of digits read,
\* their value>>.
ParseDigits(s, i, acc) ==
    IF i > Len(s) \/ ~IsDigit(s[i]) THEN acc
    ELSE ParseDigits(s, i + 1, <<acc[1] + 1, acc[2] * 10 + DigitValue(s[i])>>)

\* parseInt(s, 10): optional sign, then the longest prefix of digits; NaN when
\* no digit is read.
parseInt(s) ==
    LET signed == Len(s) > 0 /\ s[1] \in {"-", "+"}
        mag    == ParseDigits(s, IF signed THEN 2 ELSE 1, <<0, 0>>)
    IN  IF mag[1] = 0 THEN NaN
        ELSE IF signed /\ s[1] = "-" THEN -mag[2] ELSE mag[2]

(***************************************************************************)
(* Renderables.  A group is what buildInstancedChunk returns, positioned at *)
(* (cx*CHUNK, 0, cz*CHUNK); the remote path adds a Box3Helper to it, the     *)
(* local fallback does not.                                                 *)
(***************************************************************************)
RemoteGroup(cx, cz) == [position |-> <<cx * CHUNK, 0, cz * CHUNK>>, helper |-> TRUE]

LocalGroup(cx, cz) == [position |-> <<cx * CHUNK, 0, cz * CHUNK>>, helper |-> FALSE]

\* disposeObject(object, {disposeGeometry, disposeMaterial}): the objects whose
\* geometry, and whose material, dispose() is called on.
disposeObject(object, disposeGeometry, disposeMaterial) ==
    [geometry |-> IF disposeGeometry THEN {object} ELSE {},
     material |-> IF disposeMaterial THEN {object} ELSE {}]

\* Map.prototype.set on a function.
MapSet(m, k, v) == [x \in (DOMAIN m) \cup {k} |-> IF x = k THEN v ELSE m[x]]

EmptyMap == [x \in {} |-> NaN]

\* A suspended loadChunkAt invocation: its arguments and the await it is at.
Task(cx, cz, pc) == [cx |-> cx, cz |-> cz, pc |-> pc]

\* The number of suspended loadChunkAt invocations for a key.
Outstanding(ts, key) ==
    LET S == {t \in BagToSet(ts) : keyOf(t.cx, t.cz) = key}
        RECURSIVE Sum(_)
        Sum(T) == IF T = {} THEN 0
                  ELSE LET t == CHOOSE x \in T : TRUE
                       IN  CopiesIn(t, ts) + Sum(T \ {t})
    IN  Sum(S)

\* The closure state the streaming functions read and write.
State == [loaded |-> loaded, inflight |-> inflight, disposed |-> disposed,
          tasks |-> tasks, worldGroup |-> worldGroup,
          geometryDisposed |-> geometryDisposed]

Install(s) ==
    /\ loaded' = s.loaded
    /\ inflight' = s.inflight
    /\ disposed' = s.disposed
    /\ tasks' = s.tasks
    /\ worldGroup' = s.worldGroup
    /\ geometryDisposed' = s.geometryDisposed

\* loadChunkAt without the loaded.has(key) test of its guard.
loadChunkAt_NoLoadedCheck(s, cx, cz) ==
    LET key == keyOf(cx, cz)
    IN  IF key \in s.inflight \/ s.disposed THEN s
        ELSE [s EXCEPT !.inflight = @ \cup {key},
                       !.tasks = @ (+) SetToBag({Task(cx, cz, "fetch")})]

\* loadChunkAt without the inflight.has(key) test of its guard.
loadChunkAt_NoInflightCheck(s, cx, cz) ==
    LET key == keyOf(cx, cz)
    IN  IF key \in DOMAIN s.loaded \/ s.disposed THEN s
        ELSE [s EXCEPT !.inflight = @ \cup {key},
                       !.tasks = @ (+) SetToBag({Task(cx, cz, "fetch")})]

(***************************************************************************)
(* loadChunkAt up to its first await: the guard, inflight.add and the call  *)
(* of fetch.                                                                *)
(***************************************************************************)
loadChunkAt(s, cx, cz) ==
    LET key == keyOf(cx, cz)
    IN  IF key \in DOMAIN s.loaded \/ key \in s.inflight \/ s.disposed THEN s
        ELSE [s EXCEPT !.inflight = @ \cup {key},
                       !.tasks = @ (+) SetToBag({Task(cx, cz, "fetch")})]

\* The offsets of the two nested loops, dz outermost.
Offsets ==
    LET n == 2 * VIEW_RADIUS + 1
    IN  [i \in 1..(n * n) |->
            <<((i - 1) % n) - VIEW_RADIUS, ((i - 1) \div n) - VIEW_RADIUS>>]

RECURSIVE LoadLoop_Exclusive(_, _, _, _)
\* The loops with `<` for `<=`: the last offset of each is left out.
LoadLoop_Exclusive(s, cx, cz, i) ==
    IF i > Len(Offsets) THEN s
    ELSE IF Offsets[i][1] = VIEW_RADIUS \/ Offsets[i][2] = VIEW_RADIUS
         THEN LoadLoop_Exclusive(s, cx, cz, i + 1)
         ELSE LoadLoop_Exclusive(
                  loadChunkAt(s, cx + Offsets[i][1], cz + Offsets[i][2]), cx, cz, i + 1)

RECURSIVE LoadLoop(_, _, _, _)
LoadLoop(s, cx, cz, i) ==
    IF i > Len(Offsets) THEN s
    ELSE LoadLoop(loadChunkAt(s, cx + Offsets[i][1], cz + Offsets[i][2]), cx, cz, i + 1)

\* The eviction test with `&&` for `||`.
OutOfRange_And(key, cx, cz) ==
    LET parts == split(key, ",")
        gx    == parseInt(parts[1])
        gz    == parseInt(parts[2])
    IN  Abs(gx - cx) > VIEW_RADIUS + 1 /\ Abs(gz - cz) > VIEW_RADIUS + 1

\* The eviction test with a margin of two chunks.
OutOfRange_WideMargin(key, cx, cz) ==
    LET parts == split(key, ",")
        gx    == parseInt(parts[1])
        gz    == parseInt(parts[2])
    IN  Abs(gx - cx) > VIEW_RADIUS + 2 \/ Abs(gz - cz) > VIEW_RADIUS + 2

\* The eviction test without its clause on z.
OutOfRange_XOnly(key, cx, cz) ==
    LET parts == split(key, ",")
        gx    == parseInt(parts[1])
    IN  Abs(gx - cx) > VIEW_RADIUS + 1

\* The eviction test with the margin subtracted.
OutOfRange_InnerMargin(key, cx, cz) ==
    LET parts == split(key, ",")
        gx    == parseInt(parts[1])
        gz    == parseInt(parts[2])
    IN  Abs(gx - cx) > VIEW_RADIUS - 1 \/ Abs(gz - cz) > VIEW_RADIUS - 1

\* The test of the eviction pass on one key of loaded.
OutOfRange(key, cx, cz) ==
    LET parts == split(key, ",")
        gx    == parseInt(parts[1])
        gz    == parseInt(parts[2])
    IN  Abs(gx - cx) > VIEW_RADIUS + 1 \/ Abs(gz - cz) > VIEW_RADIUS + 1

\* The eviction pass without worldGroup.remove(group).
EvictLoop_KeepAttached(s, cx, cz) ==
    LET gone == {k \in DOMAIN s.loaded : OutOfRange(k, cx, cz)}
    IN  [s EXCEPT !.loaded = [k \in (DOMAIN s.loaded) \ gone |-> s.loaded[k]],
                  !.geometryDisposed =
                      @ \cup UNION {disposeObject(s.loaded[k], FALSE, FALSE).geometry : k \in gone}]

\* The eviction pass: worldGroup.remove, disposeObject(group), loaded.delete.
EvictLoop(s, cx, cz) ==
    LET gone == {k \in DOMAIN s.loaded : OutOfRange(k, cx, cz)}
    IN  [s EXCEPT !.loaded = [k \in (DOMAIN s.loaded) \ gone |-> s.loaded[k]],
                  !.worldGroup = @ \ {s.loaded[k] : k \in gone},
                  !.geometryDisposed =
                      @ \cup UNION {disposeObject(s.loaded[k], FALSE, FALSE).geometry : k \in gone}]

ensureChunksAround(s, cx, cz) == EvictLoop(LoadLoop(s, cx, cz, 1), cx, cz)

(***************************************************************************)
(* The continuations of loadChunkAt.                                        *)
(***************************************************************************)
\* inflight.delete(key) after the try statement instead of in a finally block:
\* the early return of a disposed component skips it.
Finally_SkippedOnReturn(s, t) ==
    IF s.disposed THEN [s EXCEPT !.tasks = @ (-) SetToBag({t})]
    ELSE [s EXCEPT !.inflight = @ \ {keyOf(t.cx, t.cz)},
                   !.tasks = @ (-) SetToBag({t})]

\* inflight.delete(key) of the finally block, and the invocation ends.
Finally(s, t) ==
    [s EXCEPT !.inflight = @ \ {keyOf(t.cx, t.cz)},
              !.tasks = @ (-) SetToBag({t})]

\* The success path without `if (disposed) return`.
OnBody_NoDisposedCheck(s, t) ==
    LET key   == keyOf(t.cx, t.cz)
        group == RemoteGroup(t.cx, t.cz)
    IN  [s EXCEPT !.worldGroup = @ \cup {group},
                  !.loaded = MapSet(@, key, group),
                  !.inflight = @ \ {key},
                  !.tasks = @ (-) SetToBag({t})]

\* After `await res.arrayBuffer()`: return if disposed, else build and record.
OnBody(s, t) ==
    LET key   == keyOf(t.cx, t.cz)
        group == RemoteGroup(t.cx, t.cz)
    IN  IF s.disposed THEN Finally(s, t)
        ELSE Finally([s EXCEPT !.worldGroup = @ \cup {group},
                               !.loaded = MapSet(@, key, group)], t)

\* A catch block that only swallows the error.
OnError_NoFallback(s, t) ==
    [s EXCEPT !.inflight = @ \ {keyOf(t.cx, t.cz)},
              !.tasks = @ (-) SetToBag({t})]

\* The catch block: the local chunk, recorded unless disposed.
OnError(s, t) ==
    LET key   == keyOf(t.cx, t.cz)
        group == LocalGroup(t.cx, t.cz)
    IN  IF ~s.disposed
        THEN Finally([s EXCEPT !.worldGroup = @ \cup {group},
                               !.loaded = MapSet(@, key, group)], t)
        ELSE Finally(s, t)

(***************************************************************************)
(* The variables of chunk construction, of the route handler and of layer   *)
(* painting while none of them runs: the streaming actions leave them so.   *)
(***************************************************************************)
NoJob == [kind |-> "idle"]

NoneReturned == [server |-> {}, local |-> {}]

GenIdle == job = NoJob /\ returned = NoneReturned /\ calls = 0

NoRequest == [state |-> "none"]

RouteIdle == request = NoRequest /\ response = NoRequest /\ chunkCache = {}

PaintIdle == painting = [state |-> "none"]

(***************************************************************************)
(* Actions.                                                                 *)
(***************************************************************************)
Init ==
    /\ loaded = EmptyMap
    /\ inflight = {}
    /\ disposed = FALSE
    /\ tasks = EmptyBag
    /\ worldGroup = {}
    /\ geometryDisposed = {}
    /\ lastChunk = NoChunk
    /\ GenIdle
    /\ RouteIdle
    /\ PaintIdle

\* The effect body: ensureChunksAround at the initial chunk (line 278), then
\* the first updateLoop() (line 356), which finds lastChunkX = NaN and calls
\* ensureChunksAround for the same chunk again.
Mount ==
    /\ lastChunk = NoChunk
    /\ ~disposed
    /\ Install(ensureChunksAround(
                   ensureChunksAround(State, InitialChunk[1], InitialChunk[2]),
                   InitialChunk[1], InitialChunk[2]))
    /\ lastChunk' = InitialChunk
    /\ UNCHANGED <<genVars, routeVars, paintVars>>

\* The chunks the camera can be in at the next frame: it moves less than one
\* chunk per frame (speed * MAX_DT = 1.5 units), and the resize listener
\* (fitRendererAndCamera) puts it back at CAMERA_INITIAL_POSITION.
NextChunks(last) ==
    {c \in Region : Abs(c[1] - last[1]) <= 1 /\ Abs(c[2] - last[2]) <= 1}
        \cup {InitialChunk}

\* One animation frame in which the camera's chunk c differs from the last
\* one (a frame in the same chunk changes nothing here).
updateLoop(c) ==
    /\ lastChunk # NoChunk
    /\ ~disposed
    /\ c \in NextChunks(lastChunk)
    /\ c # lastChunk
    /\ lastChunk' = c
    /\ Install(ensureChunksAround(State, c[1], c[2]))
    /\ UNCHANGED <<genVars, routeVars, paintVars>>

\* fetch resolves with res.ok: the invocation moves on to res.arrayBuffer().
FetchOk(t) ==
    /\ BagIn(t, tasks)
    /\ t.pc = "fetch"
    /\ tasks' = (tasks (-) SetToBag({t})) (+) SetToBag({Task(t.cx, t.cz, "arrayBuffer")})
    /\ UNCHANGED <<loaded, inflight, disposed, worldGroup, geometryDisposed, lastChunk>>
    /\ UNCHANGED <<genVars, routeVars, paintVars>>

\* fetch rejects, or resolves with a non-OK status: the catch block runs.
FetchFail(t) ==
    /\ BagIn(t, tasks)
    /\ t.pc = "fetch"
    /\ Install(OnError(State, t))
    /\ UNCHANGED <<lastChunk, genVars, routeVars, paintVars>>

\* res.arrayBuffer() resolves.
BodyOk(t) ==
    /\ BagIn(t, tasks)
    /\ t.pc = "arrayBuffer"
    /\ Install(OnBody(State, t))
    /\ UNCHANGED <<lastChunk, genVars, routeVars, paintVars>>

\* res.arrayBuffer() rejects: the catch block runs.
BodyFail(t) ==
    /\ BagIn(t, tasks)
    /\ t.pc = "arrayBuffer"
    /\ Install(OnError(State, t))
    /\ UNCHANGED <<lastChunk, genVars, routeVars, paintVars>>

\* The effect cleanup.
Teardown ==
    /\ lastChunk # NoChunk
    /\ ~disposed
    /\ disposed' = TRUE
    /\ geometryDisposed' =
           geometryDisposed \cup
               UNION {disposeObject(loaded[k], FALSE, FALSE).geometry : k \in DOMAIN loaded}
    /\ loaded' = EmptyMap
    /\ UNCHANGED <<inflight, tasks, worldGroup, lastChunk>>
    /\ UNCHANGED <<genVars, routeVars, paintVars>>

Tasks == {Task(c[1], c[2], pc) : c \in Region, pc \in {"fetch", "arrayBuffer"}}

Next ==
    \/ Mount
    \/ \E c \in Region : updateLoop(c)
    \/ \E t \in Tasks : FetchOk(t)
    \/ \E t \in Tasks : FetchFail(t)
    \/ \E t \in Tasks : BodyOk(t)
    \/ \E t \in Tasks : BodyFail(t)
    \/ Teardown

Spec == Init /\ [][Next]_vars

\* The pending promise of the loadChunkAt invocation for chunk c settles
\* (at most one of the four is enabled: the invocation is at one await).
Settle(c) ==
    \/ FetchOk(Task(c[1], c[2], "fetch"))
    \/ FetchFail(Task(c[1], c[2], "fetch"))
    \/ BodyOk(Task(c[1], c[2], "arrayBuffer"))
    \/ BodyFail(Task(c[1], c[2], "arrayBuffer"))

\* Every fetch, and every reading of a response body, eventually settles.
LiveSpec == Spec /\ \A c \in Region : WF_vars(Settle(c))

(***************************************************************************)
(* Vocabulary of the properties.                                            *)
(***************************************************************************)
Key(c) == keyOf(c[1], c[2])

\* Chebyshev distance of two chunk coordinates.
Cheb(c, d) ==
    IF Abs(c[1] - d[1]) > Abs(c[2] - d[2]) THEN Abs(c[1] - d[1]) ELSE Abs(c[2] - d[2])

\* Every chunk coordinate a load can be started for.
Coords ==
    {<<c[1] + dx, c[2] + dz>> :
        c \in Region, dx \in (-VIEW_RADIUS)..VIEW_RADIUS, dz \in (-VIEW_RADIUS)..VIEW_RADIUS}

Desired(c) == {d \in Coords : Cheb(d, c) <= VIEW_RADIUS}

Resident == DOMAIN loaded

\* A step in which ensureChunksAround ran (the frame recorded a new chunk).
EnsureStep == lastChunk' # lastChunk

\* A step in which the loadChunkAt invocation t ran to its end.
Completes(t) == FetchFail(t) \/ BodyOk(t) \/ BodyFail(t)

(***************************************************************************)
(* C1: under any interleaving of ensureChunksAround calls and fetch         *)
(* completions every coordinate has at most one outstanding load, the       *)
(* coordinates with an outstanding load are exactly those in inflight, and  *)
(* a load is started only for a coordinate that was in neither loaded nor   *)
(* inflight (so the second of two calls with the same centre starts none).  *)
(***************************************************************************)
C1_OneOutstandingLoad ==
    /\ [](\A c \in Coords :
             /\ Outstanding(tasks, Key(c)) <= 1
             /\ (Key(c) \in inflight) <=> (Outstanding(tasks, Key(c)) = 1))
    /\ [][\A c \in Coords :
             Outstanding(tasks', Key(c)) > Outstanding(tasks, Key(c))
                 => (Key(c) \notin Resident /\ Key(c) \notin inflight)]_vars

\* Right after the two successive calls of the effect body: one load only.
C1_Witness ==
    /\ lastChunk = InitialChunk
    /\ inflight = {Key(InitialChunk)}
    /\ Outstanding(tasks, Key(InitialChunk)) = 1
    /\ Resident = {}

(***************************************************************************)
(* C2: when a fetch fails (fetch rejects, a non-OK status, or the body      *)
(* cannot be read) and the component is not disposed when the failure is    *)
(* handled, the coordinate is resident, with the locally generated chunk,   *)
(* when loadChunkAt completes.                                              *)
(***************************************************************************)
C2_FallbackResident ==
    [][\A t \in Tasks :
          ((FetchFail(t) \/ BodyFail(t)) /\ ~disposed)
              => /\ Key(<<t.cx, t.cz>>) \in DOMAIN loaded'
                 /\ loaded'[Key(<<t.cx, t.cz>>)] = LocalGroup(t.cx, t.cz)
                 /\ LocalGroup(t.cx, t.cz) \in worldGroup']_vars

\* A failed load has left its coordinate resident with a local chunk.
C2_Witness ==
    /\ ~disposed
    /\ \E c \in Coords :
          /\ Key(c) \in Resident
          /\ loaded[Key(c)] = LocalGroup(c[1], c[2])
          /\ Key(c) \notin inflight

(***************************************************************************)
(* C3: once teardown has set disposed, loaded is empty in every state, no   *)
(* step adds a coordinate to inflight or starts a fetch, and every fetch    *)
(* completion leaves loaded unchanged.                                      *)
(***************************************************************************)
C3_NothingAfterDisposal ==
    /\ [](disposed => Resident = {})
    /\ [][disposed =>
             /\ disposed'
             /\ loaded' = loaded
             /\ inflight' \subseteq inflight
             /\ \A c \in Coords :
                   Outstanding(tasks', Key(c)) <= Outstanding(tasks, Key(c))]_vars

\* After teardown every pending load has completed and was discarded: the
\* chunk the camera was in was still in flight at teardown (else its group
\* would be in worldGroup), and it is not in flight any more.
C3_Witness ==
    /\ disposed
    /\ worldGroup = {}
    /\ inflight = {}
    /\ tasks = EmptyBag

(***************************************************************************)
(* C4: when a loadChunkAt invocation completes, by a successful fetch, by   *)
(* the fallback or by disposal during the fetch, its coordinate is not in   *)
(* inflight; and, every fetch settling eventually, every coordinate in      *)
(* inflight is eventually removed from it (at every moment of a behaviour   *)
(* there is a later one at which the coordinate is not in inflight).        *)
(***************************************************************************)
C4_InflightCleared ==
    /\ [][\A t \in Tasks : Completes(t) => Key(<<t.cx, t.cz>>) \notin inflight']_vars
    /\ \A c \in Coords : []<>(Key(c) \notin inflight)

\* Loads have completed by the success path and by the fallback, and
\* nothing is in flight.
C4_Witness ==
    /\ inflight = {}
    /\ tasks = EmptyBag
    /\ \E c \in Coords : Key(c) \in Resident /\ loaded[Key(c)].helper
    /\ \E c \in Coords : Key(c) \in Resident /\ ~loaded[Key(c)].helper

C6_EvictionHysteresis ==
    [][EnsureStep =>
          \A c \in Coords :
              Key(c) \in Resident =>
                  ((Key(c) \notin DOMAIN loaded') <=> (Cheb(c, lastChunk') > VIEW_RADIUS + 1))]_vars

\* The initial chunk has been loaded and evicted (it left inflight, which
\* records it, and is not resident), the observer being VIEW_RADIUS + 2
\* away, while a chunk at distance VIEW_RADIUS + 1 is resident.
C6_Witness ==
    /\ ~disposed
    /\ lastChunk # NoChunk
    /\ Cheb(InitialChunk, lastChunk) = VIEW_RADIUS + 2
    /\ Key(InitialChunk) \notin Resident
    /\ Key(InitialChunk) \notin inflight
    /\ \E c \in Coords : Cheb(c, lastChunk) = VIEW_RADIUS + 1 /\ Key(c) \in Resident

(***************************************************************************)
(* C7, as claimed: once no load is in flight, no coordinate farther than    *)
(* VIEW_RADIUS + 1 from the most recent ensureChunksAround centre is in     *)
(* loaded.                                                                  *)
(***************************************************************************)
C7_Original ==
    (lastChunk # NoChunk /\ inflight = {})
        => \A c \in Coords : Key(c) \in Resident => Cheb(c, lastChunk) <= VIEW_RADIUS + 1

(***************************************************************************)
(* C7, amended: a coordinate farther than VIEW_RADIUS + 1 from the most     *)
(* recent ensureChunksAround centre is in loaded only through a load that   *)
(* completed after that call returned: no ensureChunksAround call leaves    *)
(* one resident, and between calls one becomes resident only by the         *)
(* completion of a load that was in flight.                                 *)
(***************************************************************************)
C7_OnlyStaleLoadsOutside ==
    [][\A c \in Coords :
          (Key(c) \in DOMAIN loaded' /\ Cheb(c, lastChunk') > VIEW_RADIUS + 1)
              => /\ ~EnsureStep
                 /\ Key(c) \in Resident \/ Key(c) \in inflight]_vars

\* No load is in flight and a chunk out of the retention radius is resident.
C7_Witness ==
    /\ ~disposed
    /\ lastChunk # NoChunk
    /\ inflight = {}
    /\ \E c \in Coords : Key(c) \in Resident /\ Cheb(c, lastChunk) > VIEW_RADIUS + 1

(***************************************************************************)
(* C8: a load that completes is recorded resident also when its coordinate  *)
(* is outside the current desired set, and immediately after every          *)
(* ensureChunksAround(c) returns every coordinate in loaded is within       *)
(* Chebyshev distance VIEW_RADIUS + 1 of c, so that loaded then holds at    *)
(* most (2 * VIEW_RADIUS + 3)^2 chunks.                                     *)
(***************************************************************************)
C8_StaleAdmittedThenEvicted ==
    /\ [][\A t \in Tasks :
             (Completes(t) /\ ~disposed) => Key(<<t.cx, t.cz>>) \in DOMAIN loaded']_vars
    /\ [][EnsureStep =>
             /\ \A c \in Coords :
                   Key(c) \in DOMAIN loaded' => Cheb(c, lastChunk') <= VIEW_RADIUS + 1
             /\ Cardinality(DOMAIN loaded')
                    <= (2 * VIEW_RADIUS + 3) * (2 * VIEW_RADIUS + 3)]_vars

\* A stale load has been admitted: a chunk out of the retention radius is
\* resident while the load of the observer's own chunk is still in flight.
C8_Witness ==
    /\ ~disposed
    /\ lastChunk # NoChunk
    /\ Key(lastChunk) \in inflight
    /\ \E c \in Coords : Key(c) \in Resident /\ Cheb(c, lastChunk) > VIEW_RADIUS + 1

(***************************************************************************)
(* C9: if the component is never disposed, every fetch eventually settles   *)
(* and the observer's chunk remains c from some point on, then every        *)
(* coordinate within VIEW_RADIUS of c is eventually in loaded and stays in   *)
(* loaded.                                                                  *)
(***************************************************************************)
C9_DesiredEventuallyResident ==
    \A c \in Region :
        <>[](lastChunk = c /\ ~disposed)
            => <>[](\A d \in Desired(c) : Key(d) \in Resident)

\* The observer has been VIEW_RADIUS + 2 away (the chunk there is resident)
\* and is back in the initial chunk, which is resident with nothing in flight.
C9_Witness ==
    /\ ~disposed
    /\ lastChunk = InitialChunk
    /\ \A d \in Desired(InitialChunk) : Key(d) \in Resident
    /\ inflight = {}
    /\ \E c \in Coords : Cheb(c, InitialChunk) = VIEW_RADIUS + 2 /\ Key(c) \in Resident

(***************************************************************************)
(* C10: when ensureChunksAround evicts a coordinate, the geometry of its    *)
(* renderable is released in the same step in which the renderable leaves   *)
(* the world group and the coordinate leaves loaded.                        *)
(***************************************************************************)
C10_EvictionReleases ==
    [][EnsureStep =>
          \A k \in Resident \ DOMAIN loaded' :
              /\ loaded[k] \notin worldGroup'
              /\ loaded[k] \in geometryDisposed']_vars

(***************************************************************************)
(* The chunk route (src/unnamed/part_000) and the noise it samples.         *)
(*                                                                          *)
(* Unsigned 32-bit integers are pairs <<high, low>> of 16-bit halves, so     *)
(* that Math.imul, >>> and ^ keep their width.                              *)
(***************************************************************************)
RECURSIVE BitXor(_, _, _)
\* a ^ b on the n low bits.
BitXor(a, b, n) ==
    IF n = 0 THEN 0
    ELSE ((a + b) % 2) + 2 * BitXor(a \div 2, b \div 2, n - 1)

Xor32(a, b) == <<BitXor(a[1], b[1], 16), BitXor(a[2], b[2], 16)>>

\* n >>> 0 of an integer n.
ToUint32(n) == <<(n \div 2^16) % 2^16, n % 2^16>>

\* a >>> k for 0 < k <= 16.
ShiftRight(a, k) ==
    <<a[1] \div 2^k, ((a[1] % 2^k) * 2^(16 - k) + a[2] \div 2^k) % 2^16>>

\* The product a * b of two 16-bit halves, modulo 2^32.
Mul16(a, b) ==
    LET t1  == a * (b \div 2^8)
        t0  == a * (b % 2^8)
        low == (t1 % 2^8) * 2^8 + t0
    IN  <<(t1 \div 2^8 + low \div 2^16) % 2^16, low % 2^16>>

\* Math.imul(a, b), as an unsigned value.
imul(a, b) ==
    LET low   == Mul16(a[2], b[2])
        cross == Mul16(a[1], b[2])[2] + Mul16(a[2], b[1])[2]
    IN  <<(low[1] + cross) % 2^16, low[2]>>

\* String.prototype.charCodeAt for the characters that occur in seeds and keys.
Chars == <<"-", ".", "0", "1", "2", "3", "4", "5", "6", "7", "8", "9",
           "N", "a", "b", "c", "d", "e", "f", "s", "|">>

CharCodes == <<45, 46, 48, 49, 50, 51, 52, 53, 54, 55, 56, 57,
               78, 97, 98, 99, 100, 101, 102, 115, 124>>

charCodeAt(ch) == CharCodes[CHOOSE i \in 1..Len(Chars) : Chars[i] = ch]

\* The FNV-1a offset basis 2166136261 = 0x811c9dc5 and prime 16777619.
FNV_OFFSET == <<33052, 40389>>

FNV_PRIME == <<256, 403>>

RECURSIVE hash32Loop(_, _, _)
\* The loop of hash32 from character i on (the test next = next only fixes the
\* order of evaluation).
hash32Loop(str, i, h) ==
    IF i > Len(str) THEN h
    ELSE LET next == imul(Xor32(h, ToUint32(charCodeAt(str[i]))), FNV_PRIME)
         IN  IF next = next THEN hash32Loop(str, i + 1, next) ELSE next

hash32(str) == hash32Loop(str, 1, FNV_OFFSET)

\* The multipliers 0x7feb352d and 0x846ca68b of the finalizer in mix.
MIX_C1 == <<32747, 13613>>

MIX_C2 == <<33900, 42635>>

\* The body of the loop of mix for one input x (already >>> 0).
Finalize(x) ==
    LET x1 == imul(Xor32(x, ShiftRight(x, 16)), MIX_C1)
        x2 == imul(Xor32(x1, ShiftRight(x1, 15)), MIX_C2)
    IN  Xor32(x2, ShiftRight(x2, 16))

RECURSIVE mixLoop(_, _, _)
mixLoop(nums, i, h) ==
    IF i > Len(nums) THEN h
    ELSE LET next == Xor32(h, Finalize(nums[i]))
         IN  IF next = next THEN mixLoop(nums, i + 1, next) ELSE next

\* mix(...nums): nums is the sequence of the arguments, each >>> 0.
mix(nums) == mixLoop(nums, 1, FNV_OFFSET)

\* toUnitFloat(u32) = (u32 & 0x7ffffff) / 0x8000000, as the numerator of that
\* fraction: a seed s stands for the number s / 2^27.
toUnitFloat(u32) == (u32[1] % 2^11) * 2^16 + u32[2]

(***************************************************************************)
(* makeNoise (src/src/lib/three/materials.ts lines 125-220).                *)
(*                                                                          *)
(* A real number r of the noise computation is the integer r * UNIT.  With  *)
(* the scales of the checked instance every coordinate is a multiple of     *)
(* 1/2, and then every intermediate value of noise() is a multiple of       *)
(* 1/UNIT: the integer arithmetic below and the double arithmetic of the    *)
(* source are both exact and agree.                                         *)
(***************************************************************************)
UNIT == 2^5

\* a * b of two reals.
FMul(a, b) == (a * b) \div UNIT

\* Math.floor(seed * (i + 1)) for the seed s / 2^27 and 0 < m <= 256.
FloorSeedTimes(s, m) ==
    ((s \div 2^14) * m + ((s % 2^14) * m) \div 2^14) \div 2^13

\* The iteration with the assignment p[i] = p[j] alone.
Swap_Overwrite(p, seed, i) ==
    LET j == FloorSeedTimes(seed, i + 1)
    IN  [p EXCEPT ![i] = p[j]]

\* One iteration of the shuffle: j = Math.floor(seed * (i + 1)), then the swap
\* of p[i] and p[j].
Swap(p, seed, i) ==
    LET j == FloorSeedTimes(seed, i + 1)
    IN  [p EXCEPT ![i] = p[j], ![j] = p[i]]

RECURSIVE Shuffle(_, _, _, _)
\* The iterations of the shuffle for i = hi down to lo, in that order (the
\* table of the first half is computed before the second half starts).
Shuffle(p, seed, hi, lo) ==
    IF hi = lo THEN Swap(p, seed, hi)
    ELSE LET mid == (hi + lo + 1) \div 2
             q   == Shuffle(p, seed, hi, mid)
         IN  IF DOMAIN q = DOMAIN p THEN Shuffle(q, seed, mid - 1, lo) ELSE q

\* The permutation table p of makeNoise(seed): 512 entries.
makeNoise(seed) ==
    LET half == Shuffle([i \in 0..255 |-> i], seed, 255, 1)
    IN  [i \in 0..511 |-> half[i % 256]]

fade(t) == FMul(FMul(FMul(t, t), t), FMul(t, FMul(t, 6 * UNIT) - 15 * UNIT) + 10 * UNIT)

lerp(a, b, t) == a + FMul(t, b - a)

grad(hash, x, y, z) ==
    LET h == hash % 16
        u == IF h < 8 THEN x ELSE y
        v == IF h < 4 THEN y ELSE IF h = 12 \/ h = 14 THEN x ELSE z
    IN  (IF h % 2 = 0 THEN u ELSE -u) + (IF (h \div 2) % 2 = 0 THEN v ELSE -v)

\* noise(x, y, z) of the generator whose table is p; the two-argument call
\* noise(x, y) is noise(x, y, 0).
noise(p, x0, y0, z0) ==
    LET X  == (x0 \div UNIT) % 256
        Y  == (y0 \div UNIT) % 256
        Z  == (z0 \div UNIT) % 256
        x  == x0 % UNIT
        y  == y0 % UNIT
        z  == z0 % UNIT
        u  == fade(x)
        v  == fade(y)
        w  == fade(z)
        A  == p[X] + Y
        AA == p[A] + Z
        AB == p[A + 1] + Z
        B  == p[X + 1] + Y
        BA == p[B] + Z
        BB == p[B + 1] + Z
    IN  FMul(lerp(lerp(lerp(grad(p[AA], x, y, z),
                            grad(p[BA], x - UNIT, y, z), u),
                       lerp(grad(p[AB], x, y - UNIT, z),
                            grad(p[BB], x - UNIT, y - UNIT, z), u),
                       v),
                  lerp(lerp(grad(p[AA + 1], x, y, z - UNIT),
                            grad(p[BA + 1], x - UNIT, y, z - UNIT), u),
                       lerp(grad(p[AB + 1], x, y - UNIT, z - UNIT),
                            grad(p[BB + 1], x - UNIT, y - UNIT, z - UNIT), u),
                       v),
                  w),
             UNIT \div 2) + UNIT \div 2

(***************************************************************************)
(* Block codes (enum Block).                                                *)
(***************************************************************************)
Air == 0

Grass == 1

Dirt == 2

Stone == 3

(***************************************************************************)
(* JavaScript numbers that come from the query string.  A number is kept as *)
(* its decimal expansion: nan, the sign, the digits of the integer part     *)
(* (none for 0) and the digits of the fraction (no trailing zero).  Two     *)
(* numbers of the checked instance are equal exactly if their expansions    *)
(* are (-0 is identified with 0, as === does).                              *)
(***************************************************************************)
NaNNumber == [nan |-> TRUE, neg |-> FALSE, int |-> <<>>, frac |-> <<>>]

RECURSIVE StripLeadingZeros(_)
StripLeadingZeros(ds) ==
    IF ds # <<>> /\ ds[1] = 0 THEN StripLeadingZeros(Tail(ds)) ELSE ds

RECURSIVE StripTrailingZeros(_)
StripTrailingZeros(ds) ==
    IF ds # <<>> /\ ds[Len(ds)] = 0
    THEN StripTrailingZeros(SubSeq(ds, 1, Len(ds) - 1)) ELSE ds

\* The number with the given sign and digits.
Decimal(neg, int, frac) ==
    LET i == StripLeadingZeros(int)
        f == StripTrailingZeros(frac)
    IN  [nan |-> FALSE, neg |-> neg /\ (i # <<>> \/ f # <<>>), int |-> i, frac |-> f]

RECURSIVE NatDigits(_)
NatDigits(n) == IF n = 0 THEN <<>> ELSE NatDigits(n \div 10) \o <<n % 10>>

\* The number that is the integer n.
IntNumber(n) == Decimal(n < 0, NatDigits(Abs(n)), <<>>)

\* The length of the longest prefix of digits of the string s.
DigitPrefix(s) ==
    IF \A i \in 1..Len(s) : IsDigit(s[i]) THEN Len(s)
    ELSE (CHOOSE i \in 1..Len(s) :
              ~IsDigit(s[i]) /\ \A j \in 1..(i - 1) : IsDigit(s[j])) - 1

DigitValues(s) == [i \in 1..Len(s) |-> DigitValue(s[i])]

\* Number(s) of a string: "" is 0; an optional sign, digits and an optional
\* fraction is that decimal; any other string of the checked instance (no
\* white space, exponent, radix prefix or "Infinity" occurs in it) is NaN.
Number(s) ==
    LET signed == s # <<>> /\ s[1] \in {"-", "+"}
        body   == IF signed THEN Tail(s) ELSE s
        n1     == DigitPrefix(body)
        rest   == SubSeq(body, n1 + 1, Len(body))
        dot    == rest # <<>> /\ rest[1] = "."
        fracs  == IF dot THEN Tail(rest) ELSE <<>>
        n2     == DigitPrefix(fracs)
    IN  IF s = <<>> THEN IntNumber(0)
        ELSE IF (rest = <<>> \/ (dot /\ n2 = Len(fracs))) /\ n1 + n2 > 0
             THEN Decimal(signed /\ s[1] = "-",
                          DigitValues(SubSeq(body, 1, n1)), DigitValues(fracs))
             ELSE NaNNumber

RECURSIVE Horner32(_, _, _)
\* The integer with decimal digits ds, modulo 2^32, as a <<high, low>> pair.
Horner32(ds, i, acc) ==
    IF i > Len(ds) THEN acc
    ELSE LET low == acc[2] * 10 + ds[i]
         IN  Horner32(ds, i + 1, <<(acc[1] * 10 + low \div 2^16) % 2^16, low % 2^16>>)

\* n | 0: ToInt32, that is truncation, then reduction modulo 2^32 into the
\* signed range; NaN gives 0.
ToInt32(n) ==
    LET m    == Horner32(n.int, 1, <<0, 0>>)
        low  == IF n.neg THEN (2^16 - m[2]) % 2^16 ELSE m[2]
        high == IF n.neg
                THEN (2^16 - m[1] - (IF m[2] = 0 THEN 0 ELSE 1)) % 2^16
                ELSE m[1]
    IN  IF n.nan THEN 0
        ELSE (IF high >= 2^15 THEN high - 2^16 ELSE high) * 2^16 + low

\* n > 0.
IsPositive(n) == ~n.nan /\ ~n.neg /\ (n.int # <<>> \/ n.frac # <<>>)

\* String(n), as template substitution formats it.
NumberString(n) ==
    IF n.nan THEN <<"N", "a", "N">>
    ELSE (IF n.neg THEN <<"-">> ELSE <<>>)
         \o (IF n.int = <<>> THEN <<"0">>
             ELSE [i \in 1..Len(n.int) |-> DigitChars[n.int[i] + 1]])
         \o (IF n.frac = <<>> THEN <<>>
             ELSE <<".">> \o [i \in 1..Len(n.frac) |-> DigitChars[n.frac[i] + 1]])

RECURSIVE DigitsValue(_, _, _)
\* The value of the digits ds read as an integer (short sequences only).
DigitsValue(ds, i, acc) ==
    IF i > Len(ds) THEN acc ELSE DigitsValue(ds, i + 1, acc * 10 + ds[i])

\* n * 10^k as an integer, for k = Len(n.frac).
Scaled(n) ==
    (IF n.neg THEN -1 ELSE 1) * DigitsValue(n.int \o n.frac, 1, 0)

\* n is a multiple of 1/UNIT of small magnitude: the noise arithmetic of the
\* model is exact on it.
Representable(n) ==
    /\ ~n.nan
    /\ Len(n.int) <= 2
    /\ Len(n.frac) <= 5
    /\ (Scaled(n) * UNIT) % (10 ^ Len(n.frac)) = 0

\* The representable number n as a real of the noise arithmetic.
ToReal(n) == (Scaled(n) * UNIT) \div (10 ^ Len(n.frac))

\* x > n for a real x of the noise arithmetic and a number n (false for NaN).
RealGreater(x, n) == ~n.nan /\ x * (10 ^ Len(n.frac)) > Scaled(n) * UNIT

(***************************************************************************)
(* Voxel buffers.  A buffer under construction is [grid, stray]: the        *)
(* Uint8Array as a function on 0..length-1, and the indices outside its     *)
(* bounds that the code has assigned to (a typed array ignores them).       *)
(***************************************************************************)
\* grid[i] = v on a Uint8Array.
Store(m, i, v) ==
    IF i \in DOMAIN m.grid
    THEN [grid |-> [m.grid EXCEPT ![i] = v % 2^8], stray |-> m.stray]
    ELSE [grid |-> m.grid, stray |-> m.stray \cup {i}]

RECURSIVE Loop(_, _, _, _)
\* for (k = lo; k <= hi; k++) acc = Body(acc, k).  The test acc = acc only
\* fixes the order of evaluation: the value the loop starts from is computed
\* before its iterations are.
Loop(Body(_, _), acc, lo, hi) ==
    IF lo > hi THEN acc
    ELSE IF acc = acc /\ lo = hi THEN Body(acc, lo)
    ELSE LET mid == (lo + hi) \div 2
         IN  Loop(Body, Loop(Body, acc, lo, mid), mid + 1, hi)

\* The indexer with the stride of y for the stride of z.
IDX_FlatZ(x, y, z, S) == x + y * S + z * S

\* The indexer of generateChunkServer for a chunk of size S.
IDX(x, y, z, S) == x + y * S + z * S * S

\* const grid = new Uint8Array(total); grid.fill(base).
BaseFill(params) ==
    [grid   |-> [i \in 0..(params.size * params.size * params.size - 1) |->
                    params.base % 2^8],
     stray |-> {}]

\* 0x9e3779b9, xor-ed into the hash of the seed for the cave noise.
GOLDEN == <<40503, 31161>>

\* noiseSeed1 and noiseSeed2.
NoiseSeeds(params) ==
    LET S        == params.size
        baseHash == hash32(params.seed)
        ox       == ToUint32(params.cx * S)
        oy       == ToUint32(params.cy * S)
        oz       == ToUint32(params.cz * S)
    IN  [surface |-> toUnitFloat(mix(<<baseHash, ox, oy, oz, ToUint32(161)>>)),
         caves   |-> toUnitFloat(mix(<<Xor32(baseHash, GOLDEN), ox, oy, oz,
                                       ToUint32(178)>>))]

\* Phase 1 with `y >= maxY` for `y > maxY`.
SurfacePhase_InclusiveMaxY(m, params, p) ==
    LET S     == params.size
        scale == ToReal(params.surfaceScale)
        Column(a, c) ==
            LET x    == c \div S
                z    == c % S
                h    == noise(p, (x + params.cx * S) * scale,
                              (z + params.cz * S) * scale, 0)
                maxY == (h * S) \div UNIT
            IN  Loop(LAMBDA b, k : Store(b, IDX(x, S - 1 - k, z, S), Air),
                     a, 0, S - 1 - maxY)
    IN  IF params.surfaceScale.nan THEN m ELSE Loop(Column, m, 0, S * S - 1)

(***************************************************************************)
(* Phase 1 (heightmap): in every column the cells above                     *)
(* maxY = Math.floor(h * S) become Air; p is the table of surfaceNoise.     *)
(* With a NaN scale every sample is NaN and `y > maxY` is false throughout. *)
(***************************************************************************)
SurfacePhase(m, params, p) ==
    LET S     == params.size
        scale == ToReal(params.surfaceScale)
        Column(a, c) ==
            LET x    == c \div S
                z    == c % S
                h    == noise(p, (x + params.cx * S) * scale,
                              (z + params.cz * S) * scale, 0)
                maxY == (h * S) \div UNIT
            IN  Loop(LAMBDA b, k : Store(b, IDX(x, S - 1 - k, z, S), Air),
                     a, 0, S - 2 - maxY)
    IN  IF params.surfaceScale.nan THEN m ELSE Loop(Column, m, 0, S * S - 1)

\* Phase 2 with `>=` for `>`.
CavePhase_AtThreshold(m, params, p) ==
    LET S     == params.size
        scale == ToReal(params.cavesScale)
        Cell(a, c) ==
            LET x == c \div (S * S)
                y == (c \div S) % S
                z == c % S
                n == noise(p, (x + params.cx * S) * scale,
                           (y + params.cy * S) * scale, (z + params.cz * S) * scale)
            IN  IF RealGreater(n, params.cavesThreshold) \/ n = ToReal(params.cavesThreshold)
                THEN Store(a, IDX(x, y, z, S), Air) ELSE a
    IN  IF params.cavesScale.nan THEN m ELSE Loop(Cell, m, 0, S * S * S - 1)

(***************************************************************************)
(* Phase 2 (caves): every cell whose sample exceeds cavesThreshold becomes  *)
(* Air; p is the table of cavesNoise.  With a NaN scale or a NaN threshold  *)
(* `n > cavesThreshold` is false.                                           *)
(***************************************************************************)
CavePhase(m, params, p) ==
    LET S     == params.size
        scale == ToReal(params.cavesScale)
        Cell(a, c) ==
            LET x == c \div (S * S)
                y == (c \div S) % S
                z == c % S
                n == noise(p, (x + params.cx * S) * scale,
                           (y + params.cy * S) * scale, (z + params.cz * S) * scale)
            IN  IF RealGreater(n, params.cavesThreshold)
                THEN Store(a, IDX(x, y, z, S), Air) ELSE a
    IN  IF params.cavesScale.nan THEN m ELSE Loop(Cell, m, 0, S * S * S - 1)

RECURSIVE SkipAir(_, _, _, _, _)
\* while (y >= 0 && grid[IDX(x, y, z)] === Block.Air) y--.
SkipAir(grid, S, x, z, y) ==
    IF y >= 0 /\ grid[IDX(x, y, z, S)] = Air THEN SkipAir(grid, S, x, z, y - 1) ELSE y

RECURSIVE ContiguousScan_OneMore(_, _, _, _, _, _, _, _, _)
\* The replacement loop with `replaced <= depth` for `replaced < depth`.
ContiguousScan_OneMore(m, S, x, z, y, replaced, from, to, depth) ==
    IF y >= 0 /\ replaced < depth + 1
    THEN LET i == IDX(x, y, z, S)
             b == m.grid[i]
         IN  IF b = Air \/ b # from THEN m
             ELSE ContiguousScan_OneMore(Store(m, i, to), S, x, z, y - 1,
                                         replaced + 1, from, to, depth)
    ELSE m

RECURSIVE ContiguousScan(_, _, _, _, _, _, _, _, _)
\* The replacement loop of replaceTopContiguous in column (x, z), from y down.
ContiguousScan(m, S, x, z, y, replaced, from, to, depth) ==
    IF y >= 0 /\ replaced < depth
    THEN LET i == IDX(x, y, z, S)
             b == m.grid[i]
         IN  IF b = Air \/ b # from THEN m
             ELSE ContiguousScan(Store(m, i, to), S, x, z, y - 1, replaced + 1,
                                 from, to, depth)
    ELSE m

\* replaceTopContiguous(from, to, depth) on the grid of a chunk of size S.
replaceTopContiguous(m, S, from, to, depth) ==
    Loop(LAMBDA a, c :
             ContiguousScan(a, S, c \div S, c % S,
                            SkipAir(a.grid, S, c \div S, c % S, S - 1),
                            0, from, to, depth),
         m, 0, S * S - 1)

RECURSIVE AnyScan_AnySolid(_, _, _, _, _, _, _, _, _)
\* The loop of replaceTopAny replacing every solid voxel, as for from = null.
AnyScan_AnySolid(m, S, x, z, y, replaced, from, to, depth) ==
    IF y >= 0 /\ replaced < depth
    THEN LET i == IDX(x, y, z, S)
             b == m.grid[i]
         IN  IF b # Air
             THEN AnyScan_AnySolid(Store(m, i, to), S, x, z, y - 1, replaced + 1,
                                   from, to, depth)
             ELSE AnyScan_AnySolid(m, S, x, z, y - 1, replaced, from, to, depth)
    ELSE m

RECURSIVE AnyScan_BudgetPerStep(_, _, _, _, _, _, _, _, _)
\* The loop of replaceTopAny with the budget spent on every voxel visited.
AnyScan_BudgetPerStep(m, S, x, z, y, replaced, from, to, depth) ==
    IF y >= 0 /\ replaced < depth
    THEN LET i == IDX(x, y, z, S)
             b == m.grid[i]
         IN  IF b # Air /\ b = from
             THEN AnyScan_BudgetPerStep(Store(m, i, to), S, x, z, y - 1, replaced + 1,
                                        from, to, depth)
             ELSE AnyScan_BudgetPerStep(m, S, x, z, y - 1, replaced + 1, from, to, depth)
    ELSE m

RECURSIVE AnyScan(_, _, _, _, _, _, _, _, _)
\* The replacement loop of replaceTopAny in column (x, z), from y down (from
\* is never null in a call the program makes).
AnyScan(m, S, x, z, y, replaced, from, to, depth) ==
    IF y >= 0 /\ replaced < depth
    THEN LET i == IDX(x, y, z, S)
             b == m.grid[i]
         IN  IF b # Air /\ b = from
             THEN AnyScan(Store(m, i, to), S, x, z, y - 1, replaced + 1, from, to, depth)
             ELSE AnyScan(m, S, x, z, y - 1, replaced, from, to, depth)
    ELSE m

\* replaceTopAny(from, to, depth) on the grid of a chunk of size S.
replaceTopAny(m, S, from, to, depth) ==
    Loop(LAMBDA a, c :
             AnyScan(a, S, c \div S, c % S,
                     SkipAir(a.grid, S, c \div S, c % S, S - 1),
                     0, from, to, depth),
         m, 0, S * S - 1)

\* if (grassDepth > 0) replaceTopContiguous(base, Block.Grass, grassDepth | 0).
GrassPhase(m, params) ==
    IF IsPositive(params.grassDepth)
    THEN replaceTopContiguous(m, params.size, params.base, Grass,
                              ToInt32(params.grassDepth))
    ELSE m

\* The dirt pass in contiguous mode.
DirtPhase_Contiguous(m, params) ==
    IF IsPositive(params.dirtDepth)
    THEN replaceTopContiguous(m, params.size, params.base, Dirt,
                              ToInt32(params.dirtDepth))
    ELSE m

\* if (dirtDepth > 0) replaceTopAny(base, Block.Dirt, dirtDepth | 0).
DirtPhase(m, params) ==
    IF IsPositive(params.dirtDepth)
    THEN replaceTopAny(m, params.size, params.base, Dirt, ToInt32(params.dirtDepth))
    ELSE m

(***************************************************************************)
(* The local fallback of loadChunkAt (layout.tsx lines 228-238):            *)
(* generateChunk, then two PaintLayer calls.  A depth is a real (a multiple *)
(* of 1/UNIT), since the second call passes Math.random() * 4 + 1.          *)
(***************************************************************************)
idx(x, y, z, size) == x + y * size + z * size * size

generateChunk(size, fill) ==
    [grid  |-> [i \in 0..(size * size * size - 1) |-> fill % 2^8],
     stray |-> {}]

\* IDX of PaintLayer for the given layout.
LayoutIndex(layout, x, y, z, size) ==
    IF layout = "xzy" THEN x + z * size + y * size * size
    ELSE x + y * size + z * size * size

\* isEmpty(voxels[i]): an index outside the array reads undefined.
isEmpty(grid, i) == i \notin DOMAIN grid \/ grid[i] = 0 \/ grid[i] = Air

RECURSIVE PaintSkip(_, _, _, _, _, _)
\* while (y >= 0 && isEmpty(voxels[IDX(x, y, z)])) y--.
PaintSkip(grid, size, layout, x, z, y) ==
    IF y >= 0 /\ isEmpty(grid, LayoutIndex(layout, x, y, z, size))
    THEN PaintSkip(grid, size, layout, x, z, y - 1) ELSE y

RECURSIVE PaintScan_AtLeastOne(_, _, _, _, _, _, _, _, _, _, _)
\* The replacement loop of PaintLayer with `replaced <= depth`.
PaintScan_AtLeastOne(m, size, layout, mode, x, z, y, replaced, from, to, depth) ==
    IF y >= 0 /\ replaced * UNIT <= depth
    THEN LET i == LayoutIndex(layout, x, y, z, size)
         IN  IF isEmpty(m.grid, i) THEN m
             ELSE IF mode = "contiguous"
                  THEN IF m.grid[i] # from THEN m
                       ELSE PaintScan_AtLeastOne(Store(m, i, to), size, layout, mode,
                                                 x, z, y - 1, replaced + 1, from, to,
                                                 depth)
                  ELSE IF m.grid[i] = from
                       THEN PaintScan_AtLeastOne(Store(m, i, to), size, layout, mode,
                                                 x, z, y - 1, replaced + 1, from, to,
                                                 depth)
                       ELSE PaintScan_AtLeastOne(m, size, layout, mode, x, z,
                                                 y - 1, replaced, from, to, depth)
    ELSE m

RECURSIVE PaintScan(_, _, _, _, _, _, _, _, _, _, _)
\* The replacement loop of PaintLayer in column (x, z), from y down (from is
\* never null in a call the program makes).
PaintScan(m, size, layout, mode, x, z, y, replaced, from, to, depth) ==
    IF y >= 0 /\ replaced * UNIT < depth
    THEN LET i == LayoutIndex(layout, x, y, z, size)
         IN  IF isEmpty(m.grid, i) THEN m
             ELSE IF mode = "contiguous"
                  THEN IF m.grid[i] # from THEN m
                       ELSE PaintScan(Store(m, i, to), size, layout, mode, x, z,
                                      y - 1, replaced + 1, from, to, depth)
                  ELSE IF m.grid[i] = from
                       THEN PaintScan(Store(m, i, to), size, layout, mode, x, z,
                                      y - 1, replaced + 1, from, to, depth)
                       ELSE PaintScan(m, size, layout, mode, x, z,
                                      y - 1, replaced, from, to, depth)
    ELSE m

PaintLayer(m, size, from, to, depth, layout, mode) ==
    Loop(LAMBDA a, c :
             PaintScan(a, size, layout, mode, c \div size, c % size,
                       PaintSkip(a.grid, size, layout, c \div size, c % size, size - 1),
                       0, from, to, depth),
         m, 0, size * size - 1)

\* BASE_BLOCK = WorldConfiguraton.WORLD_BASE_BLOCK.
BASE_BLOCK == Stone

\* The buffer `local` of the catch block; random is what Math.random()
\* returns.
LocalChunk(random) ==
    PaintLayer(PaintLayer(generateChunk(CHUNK, BASE_BLOCK),
                          CHUNK, BASE_BLOCK, Grass, 2 * UNIT, "xyz", "contiguous"),
               CHUNK, BASE_BLOCK, Dirt, random * 4 + UNIT, "xyz", "any").grid

(***************************************************************************)
(* Calls of the generator.  A call of generateChunkServer runs in steps     *)
(* (entry, heightmap, caves, painting, return); job holds the locals of the *)
(* running call, returned the buffers handed back so far.  Math.random() is *)
(* an ambient input of every call: the action draws its value, and the code *)
(* of the server generator never reads it.                                  *)
(***************************************************************************)
\* Values of Math.random(), in units of 1/UNIT.
RandomValues == {0, UNIT \div 2, UNIT - 1}

\* Calls of the generator and of the fallback that one behaviour makes.
MaxCalls == 3

Num(s) == Number(s)

\* Parameter sets handed to the generator.
DefaultCall ==
    [size |-> 4, seed |-> <<"1">>, base |-> Stone, cx |-> 0, cy |-> 0, cz |-> 0,
     surfaceScale   |-> Num(<<"0", ".", "5">>),
     cavesScale     |-> Num(<<"0", ".", "5">>),
     cavesThreshold |-> Num(<<"0", ".", "5">>),
     grassDepth     |-> Num(<<"2">>),
     dirtDepth      |-> Num(<<"3">>)]

GenParams ==
    {DefaultCall,
     [DefaultCall EXCEPT !.size = 5, !.cx = -1, !.cz = 2,
                         !.seed = <<"s", "e", "e", "d">>,
                         !.cavesThreshold = Num(<<"0", ".", "7", "5">>),
                         !.grassDepth = Num(<<"1">>), !.dirtDepth = Num(<<"1">>)],
     [DefaultCall EXCEPT !.cy = 1, !.cavesThreshold = Num(<<"1">>)],
     [DefaultCall EXCEPT !.base = Dirt, !.surfaceScale = Num(<<"1">>),
                         !.cavesScale = Num(<<"1">>)]}

\* The entry of generateChunkServer with cavesNoise built from Math.random().
generateChunkServer_UnseededCaves(params, random) ==
    [kind         |-> "server",
     pc           |-> "filled",
     params       |-> params,
     surfaceNoise |-> makeNoise(NoiseSeeds(params).surface),
     cavesNoise   |-> makeNoise(random * 2^22),
     buffer       |-> BaseFill(params)]

\* The entry of generateChunkServer: seeds, the two noise generators, the
\* allocation and the base fill.  random is the value Math.random() would
\* return; the code does not call it.
generateChunkServer(params, random) ==
    [kind         |-> "server",
     pc           |-> "filled",
     params       |-> params,
     surfaceNoise |-> makeNoise(NoiseSeeds(params).surface),
     cavesNoise   |-> makeNoise(NoiseSeeds(params).caves),
     buffer       |-> BaseFill(params)]

Generate(params) ==
    /\ job = NoJob
    /\ calls < MaxCalls
    /\ \E random \in RandomValues : job' = generateChunkServer(params, random)
    /\ UNCHANGED <<returned, calls, streamVars, routeVars, paintVars>>

Heightmap ==
    /\ job.kind = "server"
    /\ job.pc = "filled"
    /\ job' = [job EXCEPT !.pc = "surface",
                          !.buffer = SurfacePhase(job.buffer, job.params,
                                                  job.surfaceNoise)]
    /\ UNCHANGED <<returned, calls, streamVars, routeVars, paintVars>>

Caves ==
    /\ job.kind = "server"
    /\ job.pc = "surface"
    /\ job' = [job EXCEPT !.pc = "caves",
                          !.buffer = CavePhase(job.buffer, job.params,
                                               job.cavesNoise)]
    /\ UNCHANGED <<returned, calls, streamVars, routeVars, paintVars>>

Paint ==
    /\ job.kind = "server"
    /\ job.pc = "caves"
    /\ job' = [job EXCEPT !.pc = "painted",
                          !.buffer = DirtPhase(GrassPhase(job.buffer, job.params),
                                               job.params)]
    /\ UNCHANGED <<returned, calls, streamVars, routeVars, paintVars>>

\* return grid, to a caller that is not the route handler.
Return ==
    /\ job.kind = "server"
    /\ job.pc = "painted"
    /\ request = NoRequest
    /\ returned' = [returned EXCEPT !.server =
                        @ \cup {[params |-> job.params, grid |-> job.buffer.grid]}]
    /\ calls' = calls + 1
    /\ job' = NoJob
    /\ UNCHANGED <<streamVars, routeVars, paintVars>>

\* The catch block of loadChunkAt for chunk c, up to the buffer `local`.
LocalFallback(c) ==
    /\ job = NoJob
    /\ calls < MaxCalls
    /\ \E random \in RandomValues :
           returned' = [returned EXCEPT !.local =
                            @ \cup {[chunk |-> c, grid |-> LocalChunk(random)]}]
    /\ calls' = calls + 1
    /\ UNCHANGED <<job, streamVars, routeVars, paintVars>>

GenNext ==
    \/ \E params \in GenParams : Generate(params)
    \/ Heightmap
    \/ Caves
    \/ Paint
    \/ Return
    \/ LocalFallback(InitialChunk)

GenSpec == Init /\ [][GenNext]_vars

(***************************************************************************)
(* C11.  On fetch failure the buffer recorded for (cx, cz) is the one the   *)
(* chunk generator produces for the default terrain parameters at that      *)
(* coordinate; in particular two failed loads of the same coordinate yield  *)
(* byte-identical buffers.  The catch block does not call the generator: it *)
(* paints a full chunk with a dirt depth of Math.random() * 4 + 1, so two   *)
(* fallbacks of one coordinate differ.                                      *)
(***************************************************************************)
C11_FallbackDeterministic ==
    \A a, b \in returned.local : a.chunk = b.chunk => a.grid = b.grid

C16_BufferAndIndex ==
    /\ job.kind = "server" =>
           LET S == job.params.size
               R == 0..(S - 1)
           IN  /\ DOMAIN job.buffer.grid = 0..(S * S * S - 1)
               /\ job.buffer.stray = {}
               /\ {IDX(t[1], t[2], t[3], S) : t \in R \X R \X R} = 0..(S * S * S - 1)
               /\ \A i \in 0..(S * S * S - 1) :
                      IDX(i % S, (i \div S) % S, i \div (S * S), S) = i
    /\ \A r \in returned.server :
           /\ DOMAIN r.grid = 0..(r.params.size * r.params.size * r.params.size - 1)
           /\ \A i \in DOMAIN r.grid : r.grid[i] \in 0..(2^8 - 1)

\* A call for size 5 that went through every phase.
C16_Witness ==
    /\ job.kind = "server"
    /\ job.pc = "painted"
    /\ job.params.size = 5
    /\ \E i \in DOMAIN job.buffer.grid : job.buffer.grid[i] = Air

\* The surface sample of column (x, z) of the running call.
SurfaceSample(x, z) ==
    noise(job.surfaceNoise,
          (x + job.params.cx * job.params.size) * ToReal(job.params.surfaceScale),
          (z + job.params.cz * job.params.size) * ToReal(job.params.surfaceScale), 0)

(***************************************************************************)
(* C17.  After base fill and surface carving, in every column (x, z) each   *)
(* cell with y > maxY is Air and each cell with y <= maxY holds baseBlockId,*)
(* where maxY = floor(sample * size) for the column's sample in [0, 1]; no  *)
(* non-Air cell has an Air cell below it and the layer y = 0 is not carved. *)
(***************************************************************************)
C17_SurfaceColumns ==
    (job.kind = "server" /\ job.pc = "surface") =>
        LET S == job.params.size
            g == job.buffer.grid
        IN  \A x, z \in 0..(S - 1) :
                LET sample == SurfaceSample(x, z)
                    maxY   == (sample * S) \div UNIT
                IN  /\ sample \in 0..UNIT
                    /\ \A y \in 0..(S - 1) :
                           g[IDX(x, y, z, S)] = IF y > maxY THEN Air ELSE job.params.base
                    /\ \A y \in 1..(S - 1) :
                           g[IDX(x, y, z, S)] # Air => g[IDX(x, y - 1, z, S)] # Air
                    /\ g[IDX(x, 0, z, S)] = job.params.base

\* The surface phase carved two columns to different heights.
C17_Witness ==
    /\ job.kind = "server"
    /\ job.pc = "surface"
    /\ LET S == job.params.size
       IN  \E x1, z1, x2, z2 \in 0..(S - 1) :
               /\ (SurfaceSample(x1, z1) * S) \div UNIT < (SurfaceSample(x2, z2) * S) \div UNIT
               /\ (SurfaceSample(x2, z2) * S) \div UNIT < S - 1

\* The cave sample of cell (x, y, z) of the running call.
CaveSample(x, y, z) ==
    noise(job.cavesNoise,
          (x + job.params.cx * job.params.size) * ToReal(job.params.cavesScale),
          (y + job.params.cy * job.params.size) * ToReal(job.params.cavesScale),
          (z + job.params.cz * job.params.size) * ToReal(job.params.cavesScale))

(***************************************************************************)
(* C18.  The cave phase sets a voxel to Air if and only if its sample is    *)
(* strictly greater than cavesThreshold: a sample equal to the threshold    *)
(* does not carve, and with cavesThreshold = 1.0 the phase changes no       *)
(* voxel.                                                                   *)
(***************************************************************************)
C18_CaveCarving ==
    [][(job.kind = "server" /\ job.pc = "surface" /\ job'.pc = "caves") =>
           LET S         == job.params.size
               R         == 0..(S - 1)
               threshold == ToReal(job.params.cavesThreshold)
           IN  /\ \A x, y, z \in R :
                      job'.buffer.grid[IDX(x, y, z, S)] =
                          IF CaveSample(x, y, z) > threshold THEN Air
                          ELSE job.buffer.grid[IDX(x, y, z, S)]
               /\ threshold = UNIT => job'.buffer.grid = job.buffer.grid]_vars

\* After the cave phase: a solid voxel whose sample equals the threshold and a
\* voxel below the surface that the phase carved.
C18_Witness ==
    /\ job.kind = "server"
    /\ job.pc = "caves"
    /\ LET S         == job.params.size
           R         == 0..(S - 1)
           threshold == ToReal(job.params.cavesThreshold)
       IN  /\ \E x, y, z \in R :
                  /\ CaveSample(x, y, z) = threshold
                  /\ job.buffer.grid[IDX(x, y, z, S)] = job.params.base
           /\ \E x, y, z \in R :
                  /\ CaveSample(x, y, z) > threshold
                  /\ y <= (SurfaceSample(x, z) * S) \div UNIT

(***************************************************************************)
(* The route handler GET /api/chunk.  A query string is the sequence of its *)
(* <<name, value>> pairs (URLSearchParams); strings are sequences of        *)
(* characters.  unstable_cache is taken as a memo table on the Params.      *)
(***************************************************************************)
RECURSIVE SearchParam(_, _, _)
\* sp.get(name) ?? fallback: the value of the first pair called name.
SearchParam(sp, name, fallback) ==
    IF sp = <<>> THEN fallback
    ELSE IF Head(sp)[1] = name THEN Head(sp)[2]
    ELSE SearchParam(Tail(sp), name, fallback)

\* parseParams without Math.max(4, Math.min(128, ...)).
parseParams_Unclamped(sp) ==
    [size |-> ToInt32(Number(SearchParam(sp, "size", <<"6", "4">>))),
     seed |-> SearchParam(sp, "seed", <<"s", "e", "e", "d">>),
     base |-> ToInt32(Number(SearchParam(sp, "base", NumberToString(Stone)))),
     cx   |-> ToInt32(Number(SearchParam(sp, "cx", <<"0">>))),
     cy   |-> ToInt32(Number(SearchParam(sp, "cy", <<"0">>))),
     cz   |-> ToInt32(Number(SearchParam(sp, "cz", <<"0">>))),
     surfaceScale   |-> Number(SearchParam(sp, "surfaceScale", <<"0", ".", "0", "4">>)),
     cavesScale     |-> Number(SearchParam(sp, "cavesScale", <<"0", ".", "1", "6">>)),
     cavesThreshold |-> Number(SearchParam(sp, "cavesThreshold", <<"0", ".", "7", "2">>)),
     grassDepth     |-> Number(SearchParam(sp, "grassDepth", <<"2">>)),
     dirtDepth      |-> Number(SearchParam(sp, "dirtDepth", <<"3">>))]

parseParams(sp) ==
    LET n    == ToInt32(Number(SearchParam(sp, "size", <<"6", "4">>)))
        least == IF n < 128 THEN n ELSE 128
    IN  [size |-> IF least > 4 THEN least ELSE 4,
         seed |-> SearchParam(sp, "seed", <<"s", "e", "e", "d">>),
         base |-> ToInt32(Number(SearchParam(sp, "base", NumberToString(Stone)))),
         cx   |-> ToInt32(Number(SearchParam(sp, "cx", <<"0">>))),
         cy   |-> ToInt32(Number(SearchParam(sp, "cy", <<"0">>))),
         cz   |-> ToInt32(Number(SearchParam(sp, "cz", <<"0">>))),
         surfaceScale   |-> Number(SearchParam(sp, "surfaceScale", <<"0", ".", "0", "4">>)),
         cavesScale     |-> Number(SearchParam(sp, "cavesScale", <<"0", ".", "1", "6">>)),
         cavesThreshold |-> Number(SearchParam(sp, "cavesThreshold", <<"0", ".", "7", "2">>)),
         grassDepth     |-> Number(SearchParam(sp, "grassDepth", <<"2">>)),
         dirtDepth      |-> Number(SearchParam(sp, "dirtDepth", <<"3">>))]

\* keyOf of the route with no delimiter between the seed and the base.
keyOfParams_SeedUndelimited(p) ==
    NumberToString(p.size) \o <<"|">> \o p.seed \o NumberToString(p.base)
    \o <<"|">> \o NumberToString(p.cx) \o <<"|">> \o NumberToString(p.cy)
    \o <<"|">> \o NumberToString(p.cz) \o <<"|">> \o NumberString(p.surfaceScale)
    \o <<"|">> \o NumberString(p.cavesScale) \o <<"|">> \o NumberString(p.cavesThreshold)
    \o <<"|">> \o NumberString(p.grassDepth) \o <<"|">> \o NumberString(p.dirtDepth)

\* keyOf of the route (the client has a keyOf of its own).
keyOfParams(p) ==
    NumberToString(p.size) \o <<"|">> \o p.seed \o <<"|">> \o NumberToString(p.base)
    \o <<"|">> \o NumberToString(p.cx) \o <<"|">> \o NumberToString(p.cy)
    \o <<"|">> \o NumberToString(p.cz) \o <<"|">> \o NumberString(p.surfaceScale)
    \o <<"|">> \o NumberString(p.cavesScale) \o <<"|">> \o NumberString(p.cavesThreshold)
    \o <<"|">> \o NumberString(p.grassDepth) \o <<"|">> \o NumberString(p.dirtDepth)

HexChars == <<"0", "1", "2", "3", "4", "5", "6", "7", "8", "9",
              "a", "b", "c", "d", "e", "f">>

RECURSIVE HexDigits(_, _)
\* The last k hexadecimal digits of n.
HexDigits(n, k) ==
    IF k = 0 THEN <<>> ELSE HexDigits(n \div 16, k - 1) \o <<HexChars[(n % 16) + 1]>>

RECURSIVE StripZeroChars(_)
StripZeroChars(str) ==
    IF Len(str) > 1 /\ Head(str) = "0" THEN StripZeroChars(Tail(str)) ELSE str

\* u32.toString(16).
toString16(u32) == StripZeroChars(HexDigits(u32[1], 4) \o HexDigits(u32[2], 4))

\* `W/"${hash32(cacheKey).toString(16)}-${params.size}"`.
ETag(cacheKey, size) ==
    <<"W", "/", "\"">> \o toString16(hash32(cacheKey)) \o <<"-">>
    \o NumberToString(size) \o <<"\"">>

\* Largest chunk size for which a request is followed through generation.
MaxServeSize == 4

\* The noise arithmetic is exact for scales that are multiples of 1/2.
HalfSteps(n) == Representable(n) /\ ToReal(n) % (UNIT \div 2) = 0

\* The requests whose generation is followed.
Servable(params) ==
    /\ params.size \in 1..MaxServeSize
    /\ HalfSteps(params.surfaceScale)
    /\ HalfSteps(params.cavesScale)
    /\ Representable(params.cavesThreshold)

\* surfaceScale=0.5&cavesScale=0.5&cavesThreshold=0.5
Terrain ==
    <<<<"surfaceScale", <<"0", ".", "5">>>>, <<"cavesScale", <<"0", ".", "5">>>>,
      <<"cavesThreshold", <<"0", ".", "5">>>>>>

\* Query strings of the requests.
Queries ==
    {<<>>,
     <<<<"size", <<"9", "9", "9", "9">>>>>>,
     <<<<"size", <<"1", "6", ".", "7">>>>, <<"surfaceScale", <<"a">>>>>>,
     <<<<"size", <<"4">>>>, <<"seed", <<"1">>>>>> \o Terrain,
     <<<<"size", <<"a", "b", "c">>>>, <<"seed", <<"1">>>>, <<"size", <<"8">>>>>> \o Terrain,
     <<<<"size", <<"1">>>>, <<"seed", <<"1", "|", "3">>>>, <<"base", <<"0">>>>,
       <<"grassDepth", <<"1">>>>, <<"dirtDepth", <<"1">>>>>> \o Terrain,
     <<<<"size", <<"-", "5">>>>, <<"seed", <<"1", "|">>>>, <<"base", <<"3", "0">>>>,
       <<"grassDepth", <<"1">>>>, <<"dirtDepth", <<"1">>>>>> \o Terrain,
     <<<<"size", <<"2", "1", "4", "7", "4", "8", "3", "6", "4", "9">>>>,
       <<"seed", <<"1", "|", "3">>>>, <<"base", <<"0">>>>, <<"cy", <<"1">>>>>>,
     <<<<"size", <<"4", "2", "9", "4", "9", "6", "7", "3", "0", "0">>>>,
       <<"seed", <<"1">>>>, <<"base", <<"3">>>>>> \o Terrain}

\* An If-None-Match value that is no tag of the route.
ForeignTag == <<"W", "/", "\"", "0", "-", "4", "\"">>

\* The requests the cache holds a chunk for.
Cached == {e.params : e \in chunkCache}

\* GET up to `await getChunkCached(params)`: parse, key, and on a cache miss
\* the start of generation.
GET(sp) ==
    /\ job = NoJob
    /\ IF request.state = "none" THEN TRUE ELSE ~Servable(request.params)
    /\ LET params == parseParams(sp)
       IN  /\ request' = [state |-> "awaiting", query |-> sp, params |-> params,
                          cacheKey |-> keyOfParams(params)]
           /\ IF Servable(params) /\ params \notin Cached
              THEN \E random \in RandomValues :
                       job' = generateChunkServer(params, random)
              ELSE job' = job
    /\ UNCHANGED <<response, chunkCache, returned, calls, streamVars, paintVars>>

\* The values of If-None-Match: absent, the tag of the last response, a
\* foreign tag.
Headers ==
    {<<>>, ForeignTag} \cup (IF response.state = "sent" THEN {response.etag} ELSE {})

\* The rest of GET with the conditional request answered like any other.
Respond_Unconditional ==
    /\ request.state = "awaiting"
    /\ IF request.params \in Cached THEN job = NoJob
       ELSE job.kind = "server" /\ job.pc = "painted"
    /\ \E ifNoneMatch \in Headers :
       LET data == IF request.params \in Cached
                   THEN (CHOOSE e \in chunkCache : e.params = request.params).grid
                   ELSE job.buffer.grid
           etag == ETag(request.cacheKey, request.params.size)
       IN  /\ chunkCache' = chunkCache \cup {[params |-> request.params, grid |-> data]}
           /\ response' =
                  [state |-> "sent", status |-> 200, etag |-> etag,
                   body |-> [i \in 1..(Cardinality(DOMAIN data)) |-> data[i - 1]],
                   params |-> request.params, cacheKey |-> request.cacheKey,
                   ifNoneMatch |-> ifNoneMatch]
    /\ job' = NoJob
    /\ request' = NoRequest
    /\ UNCHANGED <<returned, calls, streamVars, paintVars>>

\* The rest of GET once getChunkCached resolves, from the cache or from the
\* call of generateChunkServer that has finished: the tag, the conditional
\* request, the response.  ifNoneMatch is the header of the request (<<>> when
\* absent); a 304 has a null body, here <<>>.
Respond ==
    /\ request.state = "awaiting"
    /\ IF request.params \in Cached THEN job = NoJob
       ELSE job.kind = "server" /\ job.pc = "painted"
    /\ \E ifNoneMatch \in Headers :
       LET data == IF request.params \in Cached
                   THEN (CHOOSE e \in chunkCache : e.params = request.params).grid
                   ELSE job.buffer.grid
           etag == ETag(request.cacheKey, request.params.size)
       IN  /\ chunkCache' = chunkCache \cup {[params |-> request.params, grid |-> data]}
           /\ response' =
                  IF ifNoneMatch # <<>> /\ ifNoneMatch = etag
                  THEN [state |-> "sent", status |-> 304, etag |-> etag,
                        body |-> <<>>,
                        params |-> request.params, cacheKey |-> request.cacheKey,
                        ifNoneMatch |-> ifNoneMatch]
                  ELSE [state |-> "sent", status |-> 200, etag |-> etag,
                        body |-> [i \in 1..(Cardinality(DOMAIN data)) |-> data[i - 1]],
                        params |-> request.params, cacheKey |-> request.cacheKey,
                        ifNoneMatch |-> ifNoneMatch]
    /\ job' = NoJob
    /\ request' = NoRequest
    /\ UNCHANGED <<returned, calls, streamVars, paintVars>>

RouteNext ==
    \/ \E sp \in Queries : GET(sp)
    \/ Heightmap
    \/ Caves
    \/ Paint
    \/ Respond

RouteSpec == Init /\ [][RouteNext]_vars

(***************************************************************************)
(* C13.  keyOf maps two Params that differ in at least one field to         *)
(* different key strings, also when the seed contains the delimiter '|' or  *)
(* digits.  Checked on the Params of every request against those of the     *)
(* response before it.                                                      *)
(***************************************************************************)
C13_KeysDistinct ==
    (request.state = "awaiting" /\ response.state = "sent") =>
        (request.params # response.params => request.cacheKey # response.cacheKey)

\* A request whose seed is 1|3 after a response for the seed 1.
C13_Witness ==
    /\ request.state = "awaiting"
    /\ response.state = "sent"
    /\ request.params.seed = <<"1", "|", "3">>
    /\ response.params.seed = <<"1">>
    /\ request.params.size = response.params.size

(***************************************************************************)
(* C14.  The ETag of a response is a function of the parsed parameters      *)
(* only; a request whose If-None-Match equals the ETag returned before for  *)
(* the same parameters receives 304 with an empty body, and every other     *)
(* handled request receives 200 with the full buffer of size^3 bytes and    *)
(* that ETag.                                                               *)
(***************************************************************************)
C14_ConditionalGet ==
    [][(request.state = "awaiting" /\ request'.state = "none") =>
           LET p     == request.params
               again == response.state = "sent" /\ response.params = p
           IN  /\ response'.state = "sent"
               /\ response'.params = p
               /\ again => response'.etag = response.etag
               /\ IF again /\ response'.ifNoneMatch = response.etag
                  THEN /\ response'.status = 304
                       /\ response'.body = <<>>
                  ELSE /\ response'.status = 200
                       /\ Len(response'.body) = p.size * p.size * p.size
                       /\ \E e \in chunkCache' :
                              /\ e.params = p
                              /\ \A i \in 1..Len(response'.body) :
                                     response'.body[i] = e.grid[i - 1]
                       /\ response'.etag # <<>>]_vars

\* A conditional request answered 304 with no body.
C14_Witness ==
    /\ response.state = "sent"
    /\ response.status = 304
    /\ response.body = <<>>
    /\ response.ifNoneMatch = response.etag

(***************************************************************************)
(* C15.  For every value of the size query parameter (absent, non-numeric,  *)
(* negative, fractional, larger than 2^31) parseParams yields an integer    *)
(* size with 4 <= size <= 128; size=1 yields 4 and size=9999 yields 128;    *)
(* the request is handled whatever the size.                                *)
(***************************************************************************)
C15_SizeClamped ==
    request.state = "awaiting" =>
        LET text == SearchParam(request.query, "size", <<>>)
        IN  /\ request.params.size \in 4..128
            /\ text = <<"1">> => request.params.size = 4
            /\ text = <<"9", "9", "9", "9">> => request.params.size = 128

\* A request with size=2147483649, which `| 0` turns negative.
C15_Witness ==
    /\ request.state = "awaiting"
    /\ SearchParam(request.query, "size", <<>>) =
           <<"2", "1", "4", "7", "4", "8", "3", "6", "4", "9">>
    /\ request.params.size = 4

(***************************************************************************)
(* Layer painting on its own.  painting holds a buffer of PaintSize^3 cells *)
(* as the carving phases may leave it: the column under test at the         *)
(* positions with x + z even and an Air column elsewhere.  The grass pass   *)
(* and then the dirt pass run on it as the program runs them: on the server *)
(* lines 256-257 of the route, on the client the two PaintLayer calls of    *)
(* the fallback, here with an integer dirt depth.                           *)
(***************************************************************************)
\* Edge of the buffers that are painted.
PaintSize == 5

\* Columns, bottom (index 1, y = 0) to top.
Columns ==
    [1..PaintSize -> {Air, Dirt, Stone}]
    \cup {[y \in 1..PaintSize |-> IF y <= h THEN Grass ELSE Air] : h \in 1..PaintSize}

\* Values of baseBlockId, the `from` of both passes.
Bases == {Stone, Dirt, Grass}

GrassDepths == 0..2

DirtDepths == 0..3

\* The painted buffer for a column.
ColumnGrid(column) ==
    [grid  |-> [i \in 0..(PaintSize * PaintSize * PaintSize - 1) |->
                   IF ((i % PaintSize) + (i \div (PaintSize * PaintSize))) % 2 = 0
                   THEN column[((i \div PaintSize) % PaintSize) + 1]
                   ELSE Air],
     stray |-> {}]

\* The parameters of a painting run.
PaintParams(base, grassDepth, dirtDepth) ==
    [size |-> PaintSize, base |-> base,
     grassDepth |-> IntNumber(grassDepth), dirtDepth |-> IntNumber(dirtDepth)]

\* A buffer reaches the painting phase.
BeginPaint(column) ==
    /\ painting.state = "none"
    /\ painting' = [state |-> "carved", column |-> column, m |-> ColumnGrid(column)]
    /\ UNCHANGED <<streamVars, genVars, routeVars>>

\* The grass pass: contiguous, from the base block to Grass.
GrassPass(side, base, depth) ==
    /\ painting.state = "carved"
    /\ painting' =
           [state |-> "grass", column |-> painting.column, side |-> side,
            base |-> base, grassDepth |-> depth, carved |-> painting.m,
            m |-> IF side = "server"
                  THEN GrassPhase(painting.m, PaintParams(base, depth, 0))
                  ELSE PaintLayer(painting.m, PaintSize, base, Grass, depth * UNIT,
                                  "xyz", "contiguous")]
    /\ UNCHANGED <<streamVars, genVars, routeVars>>

\* The dirt pass: any, from the base block to Dirt.
DirtPass(depth) ==
    /\ painting.state = "grass"
    /\ painting' =
           [state |-> "dirt", column |-> painting.column, side |-> painting.side,
            base |-> painting.base, grassDepth |-> painting.grassDepth,
            dirtDepth |-> depth, carved |-> painting.carved, grassed |-> painting.m,
            m |-> IF painting.side = "server"
                  THEN DirtPhase(painting.m, PaintParams(painting.base, 0, depth))
                  ELSE PaintLayer(painting.m, PaintSize, painting.base, Dirt,
                                  depth * UNIT, "xyz", "any")]
    /\ UNCHANGED <<streamVars, genVars, routeVars>>

PaintNext ==
    \/ \E column \in Columns : BeginPaint(column)
    \/ \E side \in {"server", "client"}, base \in Bases, depth \in GrassDepths :
           GrassPass(side, base, depth)
    \/ \E depth \in DirtDepths : DirtPass(depth)

PaintSpec == Init /\ [][PaintNext]_vars

\* The tested column of a painted buffer, bottom to top, at position (x, z).
ColumnAt(m, x, z) == [y \in 1..PaintSize |-> m.grid[IDX(x, y - 1, z, PaintSize)]]

\* The positions that hold the tested column.
Tested == {t \in (0..(PaintSize - 1)) \X (0..(PaintSize - 1)) : (t[1] + t[2]) % 2 = 0}

\* A column of h voxels of block b under Air.
Pillar(b, h) == [y \in 1..PaintSize |-> IF y <= h THEN b ELSE Air]

\* The layers the claim describes on a pillar of height h.
Layered(b, h, grassDepth, dirtDepth) ==
    [y \in 1..PaintSize |->
        IF y > h THEN Air
        ELSE IF y > h - grassDepth THEN Grass
        ELSE IF y > h - grassDepth - dirtDepth THEN Dirt
        ELSE b]

(***************************************************************************)
(* C19 as stated: for a column entirely of baseBlockId with height >=       *)
(* grassDepth + dirtDepth, the grass pass and then the dirt pass leave the  *)
(* top grassDepth voxels Grass, the next dirtDepth voxels Dirt and every    *)
(* lower voxel baseBlockId.  With baseBlockId = Grass the dirt pass, whose  *)
(* `from` is Grass, turns the top voxels into Dirt.                         *)
(***************************************************************************)
C19_Original ==
    painting.state = "dirt" =>
        \A h \in 1..PaintSize :
            (/\ painting.column = Pillar(painting.base, h)
             /\ h >= painting.grassDepth + painting.dirtDepth) =>
                \A t \in Tested :
                    ColumnAt(painting.m, t[1], t[2]) =
                        Layered(painting.base, h, painting.grassDepth, painting.dirtDepth)

(***************************************************************************)
(* C19.  For a column entirely of baseBlockId, a solid block other than     *)
(* Grass, with height >= grassDepth + dirtDepth, the grass pass and then    *)
(* the dirt pass leave the top grassDepth voxels Grass, the next dirtDepth  *)
(* voxels Dirt and every lower voxel baseBlockId; for depths 2 and 3 that   *)
(* is 2 Grass over 3 Dirt.                                                  *)
(***************************************************************************)
C19_GrassThenDirt ==
    (painting.state = "dirt" /\ painting.base # Grass) =>
        \A h \in 1..PaintSize :
            (/\ painting.column = Pillar(painting.base, h)
             /\ h >= painting.grassDepth + painting.dirtDepth) =>
                \A t \in Tested :
                    ColumnAt(painting.m, t[1], t[2]) =
                        Layered(painting.base, h, painting.grassDepth, painting.dirtDepth)

\* A pillar of 5 Stone painted by the server with depths 2 and 3.
C19_Witness ==
    /\ painting.state = "dirt"
    /\ painting.side = "server"
    /\ painting.base = Stone
    /\ painting.column = Pillar(Stone, 5)
    /\ painting.grassDepth = 2
    /\ painting.dirtDepth = 3
    /\ ColumnAt(painting.m, 0, 0) = <<Dirt, Dirt, Dirt, Grass, Grass>>

\* The highest solid voxel of a column (0 when it is all Air).
Top(column) ==
    IF \A y \in 1..PaintSize : column[y] = Air THEN 0
    ELSE CHOOSE y \in 1..PaintSize :
             column[y] # Air /\ \A w \in (y + 1)..PaintSize : column[w] = Air

\* The voxels from y up to the top all equal from.
RunFromTop(column, from, y) == \A w \in y..Top(column) : column[w] = from

\* The number of voxels equal to from strictly above y, up to the top.
MatchesAbove(column, from, y) ==
    Cardinality({w \in (y + 1)..Top(column) : column[w] = from})

\* No Air below the top solid voxel.
Gapless(column) == \A y \in 1..Top(column) : column[y] # Air

AllAir(m, x, z) == \A y \in 1..PaintSize : ColumnAt(m, x, z)[y] = Air

(***************************************************************************)
(* C21.  Painting leaves every column that is entirely Air unchanged, and a *)
(* pass whose depth is 0 changes no voxel of the buffer.                    *)
(***************************************************************************)
C21_AirColumnsAndZeroDepth ==
    /\ painting.state \in {"grass", "dirt"} =>
           \A x, z \in 0..(PaintSize - 1) :
               AllAir(painting.carved, x, z) => AllAir(painting.m, x, z)
    /\ (painting.state = "grass" /\ painting.grassDepth = 0) =>
           painting.m.grid = painting.carved.grid
    /\ (painting.state = "dirt" /\ painting.dirtDepth = 0) =>
           painting.m.grid = painting.grassed.grid

\* A client grass pass of depth 0 on a pillar of the base block, beside Air
\* columns.
C21_Witness ==
    /\ painting.state = "grass"
    /\ painting.side = "client"
    /\ painting.grassDepth = 0
    /\ painting.column = Pillar(painting.base, 3)
    /\ AllAir(painting.carved, 1, 0)
    /\ painting.m.grid = painting.carved.grid

(***************************************************************************)
(* C26.  The server's painting helpers replicate the client's PaintLayer:   *)
(* on every buffer, columns with Air gaps below the top solid voxel         *)
(* included, replaceTopContiguous gives the same buffer as PaintLayer in    *)
(* contiguous mode and replaceTopAny the same buffer as PaintLayer in any   *)
(* mode.  PaintLayer's any mode stops at an Air gap, replaceTopAny scans    *)
(* past it.                                                                 *)
(***************************************************************************)
C26_ServerMatchesClient ==
    /\ painting.state = "grass" =>
           replaceTopContiguous(painting.carved, PaintSize, painting.base, Grass,
                                painting.grassDepth).grid
               = PaintLayer(painting.carved, PaintSize, painting.base, Grass,
                            painting.grassDepth * UNIT, "xyz", "contiguous").grid
    /\ painting.state = "dirt" =>
           replaceTopAny(painting.grassed, PaintSize, painting.base, Dirt,
                         painting.dirtDepth).grid
               = PaintLayer(painting.grassed, PaintSize, painting.base, Dirt,
                            painting.dirtDepth * UNIT, "xyz", "any").grid

\* The cells of a buffer that hold Air.
AirCells(m) == {i \in DOMAIN m.grid : m.grid[i] = Air}

\* A pass from buffer a to buffer b changed only cells that held from, and
\* none into Air.
OnlyFrom(a, b, from) ==
    \A i \in DOMAIN a.grid :
        b.grid[i] # a.grid[i] => (a.grid[i] = from /\ a.grid[i] # Air /\ b.grid[i] # Air)

(***************************************************************************)
(* C29.  Painting with a `to` other than Air (both passes, server helpers   *)
(* and PaintLayer) never changes an Air cell, never turns a solid cell into *)
(* Air and changes only cells whose value equals `from`: the set of Air     *)
(* cells is the same before and after the painting phase.                   *)
(***************************************************************************)
C29_PaintingKeepsAir ==
    /\ painting.state = "grass" =>
           /\ OnlyFrom(painting.carved, painting.m, painting.base)
           /\ AirCells(painting.m) = AirCells(painting.carved)
    /\ painting.state = "dirt" =>
           /\ OnlyFrom(painting.grassed, painting.m, painting.base)
           /\ AirCells(painting.m) = AirCells(painting.carved)
           /\ DOMAIN painting.m.grid = DOMAIN painting.carved.grid
           /\ painting.m.stray = {}

\* Both passes of the server replaced voxels in a column with an Air gap and
\* a voxel that is not the base block.
C29_Witness ==
    /\ painting.state = "dirt"
    /\ painting.side = "server"
    /\ painting.base = Stone
    /\ painting.column = <<Stone, Air, Dirt, Stone, Stone>>
    /\ painting.grassDepth = 1
    /\ painting.dirtDepth = 2
    /\ ColumnAt(painting.m, 0, 0) = <<Dirt, Air, Dirt, Dirt, Grass>>

\* The arguments of the call of mix for noiseSeed1, each >>> 0.
SurfaceMixArgs(params) ==
    <<hash32(params.seed), ToUint32(params.cx * params.size),
      ToUint32(params.cy * params.size), ToUint32(params.cz * params.size),
      ToUint32(161)>>

\* The argument list with the arguments at positions i and j exchanged.
Transposed(nums, i, j) == [nums EXCEPT ![i] = nums[j], ![j] = nums[i]]

(***************************************************************************)
(* C22.  mix is sensitive to the order of its inputs: exchanging two        *)
(* distinct arguments of mix(baseHash, originX, originY, originZ,           *)
(* channelConstant) changes the 32-bit result.  The loop of mix xors the    *)
(* finalized inputs into h, so the result is the same for every order.      *)
(***************************************************************************)
C22_OrderSensitive ==
    job.kind = "server" =>
        LET nums == SurfaceMixArgs(job.params)
        IN  \A i \in 1..Len(nums) : \A j \in (i + 1)..Len(nums) :
                nums[i] # nums[j] => mix(Transposed(nums, i, j)) # mix(nums)

\* The parameters of the chunk next to params along x.
AdjacentX(params) == [params EXCEPT !.cx = @ + 1]

(***************************************************************************)
(* C23.  Neighbouring chunks sample one continuous noise field: for a fixed *)
(* world seed the surface-noise and cave-noise generators of a chunk are    *)
(* those of the adjacent chunk coordinate.  The seeds of both generators    *)
(* mix in the chunk origin, so each chunk has permutation tables of its own.*)
(***************************************************************************)
C23_OneNoiseField ==
    job.kind = "server" =>
        /\ makeNoise(NoiseSeeds(AdjacentX(job.params)).surface) = job.surfaceNoise
        /\ makeNoise(NoiseSeeds(AdjacentX(job.params)).caves) = job.cavesNoise

\* The arguments of the call of mix for noiseSeed2, each >>> 0.
CavesMixArgs(params) ==
    <<Xor32(hash32(params.seed), GOLDEN), ToUint32(params.cx * params.size),
      ToUint32(params.cy * params.size), ToUint32(params.cz * params.size),
      ToUint32(178)>>

\* s / 2^27 is (u32 mod 2^27) / 2^27: s keeps the low 27 bits of u32, which
\* are the 16 bits of its low half and the low 11 bits of its high half.
MaskedTo27Bits(u32, s) ==
    /\ s \in 0..(2^27 - 1)
    /\ s % 2^16 = u32[2]
    /\ s \div 2^16 = u32[1] % 2^11

\* The table p is one makeNoise can return for the seed: 512 entries, the
\* first 256 a permutation of 0..255, the last 256 a copy of them, and every
\* swap index of the shuffle within 0..i.
ShuffledTable(seed, p) ==
    /\ DOMAIN p = 0..511
    /\ {p[i] : i \in 0..255} = 0..255
    /\ \A i \in 0..255 : p[i + 256] = p[i]
    /\ \A i \in 1..255 : FloorSeedTimes(seed, i + 1) \in 0..i

(***************************************************************************)
(* C24.  toUnitFloat returns (u32 mod 2^27) / 2^27, a value in [0, 1), and  *)
(* for such a seed makeNoise builds a table of 512 entries whose entries    *)
(* 0..255 are a permutation of 0..255 (every swap index                     *)
(* j = floor(seed * (i + 1)) is in 0..i) and whose entries 256..511 repeat  *)
(* entries 0..255: so for both seeds and both tables of every call.         *)
(***************************************************************************)
C24_SeedsAndTables ==
    job.kind = "server" =>
        LET u1 == mix(SurfaceMixArgs(job.params))
            u2 == mix(CavesMixArgs(job.params))
        IN  /\ MaskedTo27Bits(u1, toUnitFloat(u1))
            /\ MaskedTo27Bits(u2, toUnitFloat(u2))
            /\ NoiseSeeds(job.params).surface = toUnitFloat(u1)
            /\ NoiseSeeds(job.params).caves = toUnitFloat(u2)
            /\ ShuffledTable(toUnitFloat(u1), job.surfaceNoise)
            /\ ShuffledTable(toUnitFloat(u2), job.cavesNoise)

\* A call whose surface hash has bits above the 27th, so that the mask drops
\* some, and whose shuffle moved entry 255.
C24_Witness ==
    /\ job.kind = "server"
    /\ mix(SurfaceMixArgs(job.params))[1] >= 2^11
    /\ toUnitFloat(mix(SurfaceMixArgs(job.params))) > 0
    /\ job.surfaceNoise[255] # 255
    /\ job.surfaceNoise[511] = job.surfaceNoise[255]

\* The heights y of column (x, z) of a grid of size S that hold block b.
Holding(grid, S, x, z, b) == {y \in 0..(S - 1) : grid[IDX(x, y, z, S)] = b}

\* Grass is a top skin of the grid, of at most grassDepth voxels in a column,
\* over at most dirtDepth voxels of Dirt.
TopSkin(grid, params) ==
    LET S == params.size
    IN  \A x \in 0..(S - 1), z \in 0..(S - 1) :
            /\ \A y \in Holding(grid, S, x, z, Grass) :
                   \A w \in (y + 1)..(S - 1) : grid[IDX(x, w, z, S)] \in {Air, Grass}
            /\ Cardinality(Holding(grid, S, x, z, Grass)) <= ToInt32(params.grassDepth)
            /\ Cardinality(Holding(grid, S, x, z, Dirt)) <= ToInt32(params.dirtDepth)

(***************************************************************************)
(* C27.  In the generator's output with baseBlockId not in {Air, Grass,     *)
(* Dirt}, every Grass voxel has only Air or Grass voxels above it in its    *)
(* column, and each column holds at most grassDepth Grass voxels and at     *)
(* most dirtDepth Dirt voxels.                                              *)
(***************************************************************************)
C27_GrassTopSkin ==
    /\ (job.kind = "server" /\ job.pc = "painted"
            /\ job.params.base \notin {Air, Grass, Dirt})
           => TopSkin(job.buffer.grid, job.params)
    /\ \A r \in returned.server :
           r.params.base \notin {Air, Grass, Dirt} => TopSkin(r.grid, r.params)

\* A returned Stone chunk with a column that holds its full budget of Grass
\* and of Dirt and Stone below them.
C27_Witness ==
    \E r \in returned.server :
        /\ r.params.base = Stone
        /\ \E x \in 0..(r.params.size - 1), z \in 0..(r.params.size - 1) :
               /\ Cardinality(Holding(r.grid, r.params.size, x, z, Grass))
                      = ToInt32(r.params.grassDepth)
               /\ Cardinality(Holding(r.grid, r.params.size, x, z, Dirt))
                      = ToInt32(r.params.dirtDepth)
               /\ Holding(r.grid, r.params.size, x, z, Stone) # {}

\* The values of enum Block.
BlockCodes == 0..8

(***************************************************************************)
(* C25.  A block code outside the enumeration {0..8} met in a voxel buffer  *)
(* during carving, painting or chunk building is fatal: no chunk holding    *)
(* an unknown code is produced, so every buffer that generation has         *)
(* painted and every body the route sends holds codes of the enumeration    *)
(* only.  No step of the program tests a code against the enumeration.      *)
(***************************************************************************)
C25_UnknownCodeFatal ==
    /\ (job.kind = "server" /\ job.pc = "painted")
           => \A i \in DOMAIN job.buffer.grid : job.buffer.grid[i] \in BlockCodes
    /\ response.state = "sent"
           => \A i \in DOMAIN response.body : response.body[i] \in BlockCodes

(***************************************************************************)
(* C28.  Between event-loop turns no coordinate is both in loaded and in    *)
(* inflight: a coordinate enters inflight only while absent from loaded,    *)
(* and the step that records it in loaded also removes it from inflight.    *)
(***************************************************************************)
C28_LoadedOrInflight ==
    /\ [](Resident \cap inflight = {})
    /\ [][\A c \in Coords :
             /\ (Key(c) \in inflight' /\ Key(c) \notin inflight)
                    => Key(c) \notin Resident
             /\ (Key(c) \in Resident' /\ Key(c) \notin Resident)
                    => (Key(c) \in inflight /\ Key(c) \notin inflight')]_vars

\* A load has ended with its chunk resident while the load of another
\* coordinate is still in flight.
C28_Witness ==
    /\ ~disposed
    /\ \E c \in Coords, d \in Coords :
          /\ Key(c) \in Resident
          /\ Key(c) \notin inflight
          /\ loaded[Key(c)] = RemoteGroup(c[1], c[2])
          /\ Key(d) \in inflight
          /\ Key(d) \notin Resident

\* The renderables recorded in loaded.
Recorded == {loaded[k] : k \in Resident}

(***************************************************************************)
(* C30.  Until teardown a chunk renderable is a child of the world group    *)
(* if and only if its coordinate is a key of loaded, each resident          *)
(* coordinate maps to exactly one renderable, placed at that coordinate,    *)
(* and loaded.set never overwrites an entry: a load that records its chunk  *)
(* finds its key absent, and an entry changes only by being evicted.        *)
(***************************************************************************)
C30_AttachedIffResident ==
    /\ [](~disposed =>
             /\ worldGroup = Recorded
             /\ Cardinality(worldGroup) = Cardinality(Resident)
             /\ \A c \in Coords :
                   Key(c) \in Resident
                       => loaded[Key(c)] \in {RemoteGroup(c[1], c[2]),
                                              LocalGroup(c[1], c[2])})
    /\ [][~disposed' =>
             /\ \A t \in Tasks :
                   Completes(t) => Key(<<t.cx, t.cz>>) \notin Resident
             /\ \A k \in Resident \cap Resident' : loaded'[k] = loaded[k]]_vars

\* Two chunks are attached, one fetched and one generated locally, after an
\* eviction pass has detached another.
C30_Witness ==
    /\ ~disposed
    /\ Cardinality(worldGroup) = 2
    /\ \E g \in worldGroup : g.helper
    /\ \E g \in worldGroup : ~g.helper
    /\ worldGroup = Recorded
    /\ Key(InitialChunk) \notin Resident
    /\ Key(InitialChunk) \notin inflight

====
